---- MODULE Spec2Model ----
(***************************************************************************)
(* Multi-period multimodal hub network design: expanded-graph builder,     *)
(* distance oracle, near-optimal path enumerator and the capacity-         *)
(* expansion model builder, translated from build_graph.py,                *)
(* calculate_paths.py and model_gurobi.py.                                 *)
(*                                                                         *)
(* Encoding.  A node of the expanded graph G_exp is a pair <<i, m>>: the   *)
(* physical node i is <<i, 0>> (a Python int) and the mode-state (i, m)    *)
(* is <<i, m>> with m in {1, 2}.  An endpoint of an arc of A is a label    *)
(* record [id, mode]: the int i is [id |-> i, mode |-> 0] and the string   *)
(* 'i^m' is [id |-> i, mode |-> m].  Continuous solver variables are       *)
(* discretised: a path share is k / ShareDen, a flow is carried as its     *)
(* numerator over ShareDen.                                                *)
(***************************************************************************)
EXTENDS Integers, Sequences, FiniteSets, Bags, TLC

VARIABLES inp, pc, gr, Lmin_dict, paths, mdl, sol, dfs, result_json, dijkstra

vars == <<inp, pc, gr, Lmin_dict, paths, mdl, sol, dfs, result_json, dijkstra>>

-----------------------------------------------------------------------------
(* Generic helpers *)

Range(s) == {s[i] : i \in DOMAIN s}

Min2(a, b) == IF a <= b THEN a ELSE b

\* sum of f over S (BagCardinality adds the values of a function whose values
\* are positive)
SumSet(S, f) ==
  BagCardinality([x \in {y \in S : f[y] > 0} |-> f[x]])
    - BagCardinality([x \in {y \in S : f[y] < 0} |-> 0 - f[x]])

\* ceil(n / d) for n >= 0, d > 0
CeilDiv(n, d) == (n + d - 1) \div d

\* all functions f on keys with f[k] \in PK[k]
DepFuncs(keys, PK) ==
  {f \in [keys -> UNION {PK[k] : k \in keys}] : \A k \in keys : f[k] \in PK[k]}

-----------------------------------------------------------------------------
(* Program constants *)

\* float('inf')
INF == 1000000000
\* T = [1, 2]
T == 1 .. 2
EPSILON_NUM == 25
EPSILON_DEN == 100
MAX_PATHS_PER_OD == 5000
BASE_CONST == 400
HUB_HUB_DISCOUNT_PCT == 75
c_s == 500
C_H_DEFAULT == 1000
BASE_DEMAND == 10000
M_big_hub == 1000000000
ARC_BASE_CAPACITY == 10000000
existing_arc_capacity == 10000000
ARC_UPGRADED_ROAD == 15398438
ARC_UPGRADED_WATER == 18472500
F_LA_THROUGH_DEFAULT == 100

\* f_lh = {1: 100, 2: 200, 3: 210}; f_lh.get(l, 0)
f_lh(l) == CASE l = 1 -> 100 [] l = 2 -> 200 [] l = 3 -> 210 [] OTHER -> 0

\* growth_factor = {1: 1.0, 2: 1.5, 3: 2.0}, in tenths
growth_factor10(t) == CASE t = 1 -> 10 [] t = 2 -> 15 [] t = 3 -> 20 [] OTHER -> 10

-----------------------------------------------------------------------------
(* Labels and arcs *)

Phys(i) == [id |-> i, mode |-> 0]

\* make_virtual / f'{v}^{mode}'
make_virtual(i, m) == [id |-> i, mode |-> m]

\* isinstance(n, int)
IsInt(n) == n.mode = 0

\* isinstance(n, str) and '^' in n
IsVirtualLabel(n) == n.mode # 0

\* physical_node: '4^1' -> 4, 3 -> 3
physical_node(n) == n.id

\* to_virtual_label / token_to_node: (i, m) -> 'i^m', int stays int
token_to_node(tok) == [id |-> tok[1], mode |-> tok[2]]

\* '^1' in str(n)
HasRoadSuffix(n) == n.mode = 1

-----------------------------------------------------------------------------
(* Expanded graph builder (build_graph.py; the same code is inlined in     *)
(* model_gurobi.py lines 469-763).  An edge of edges_raw is a record       *)
(* [u, v, mode, length_m, project, inv].  Arc lists whose order and        *)
(* multiplicity the program never reads are sets.                          *)

\* create_arc_structure: real_arcs
create_real_arcs(edges_raw) ==
  UNION {{<<Phys(e.u), make_virtual(e.v, e.mode)>>,
          <<Phys(e.v), make_virtual(e.u, e.mode)>>} : e \in Range(edges_raw)}

\* create_arc_structure: virtual_arcs
create_virtual_arcs(edges_raw) ==
  UNION {{<<make_virtual(e.v, e.mode), Phys(e.v)>>,
          <<make_virtual(e.u, e.mode), Phys(e.u)>>} : e \in Range(edges_raw)}

\* create_arc_structure: through_hub_arc, one per raw edge whose tail is a hub
create_through_hub_arc(edges_raw, hubs) ==
  {<<make_virtual(e.u, e.mode), make_virtual(e.v, e.mode)>> :
     e \in {x \in Range(edges_raw) : x.u \in hubs}}

\* arc_project_type[(u, 'v^m')] = project; a later edge overwrites an earlier one
arc_project_type(edges_raw, arc) ==
  LET I == {i \in DOMAIN edges_raw :
              /\ Phys(edges_raw[i].u) = arc[1]
              /\ make_virtual(edges_raw[i].v, edges_raw[i].mode) = arc[2]}
  IN IF I = {} THEN "none"
     ELSE edges_raw[CHOOSE i \in I : \A j \in I : j <= i].project

\* the first edge (u, v, mode) matching a through-hub arc ('u^m', 'v^m')
corresponding_edge_project(edges_raw, arc) ==
  LET I == {i \in DOMAIN edges_raw :
              /\ edges_raw[i].u = arc[1].id
              /\ edges_raw[i].v = arc[2].id
              /\ edges_raw[i].mode = arc[1].mode}
  IN IF I = {} THEN "none"
     ELSE edges_raw[CHOOSE i \in I : \A j \in I : i <= j].project

\* classify_arcs: potential_arcs_list
classify_potential(edges_raw, hubs) ==
  LET real == create_real_arcs(edges_raw)
      virt == create_virtual_arcs(edges_raw)
      thru == create_through_hub_arc(edges_raw, hubs)
  IN {arc \in real \cup virt \cup thru :
        IF arc_project_type(edges_raw, arc) # "none"
        THEN arc_project_type(edges_raw, arc) = "P"
        ELSE /\ arc \notin virt
             /\ arc \in thru
             /\ corresponding_edge_project(edges_raw, arc) = "P"}

\* variant that adds no reverse arc
add_reverse_arcs_none(S) == S

\* add_reverse_arcs: (u, 'j^m') gets (j, 'u^m'); ('x^m', 'y^m') gets ('y^m', 'x^m').
\* (A virtual arc ('v^m', v) raises ValueError; it is never passed one.)
add_reverse_arcs(S) ==
  S \cup {IF IsInt(a[1])
          THEN <<Phys(a[2].id), make_virtual(a[1].id, a[2].mode)>>
          ELSE <<a[2], a[1]>> : a \in S}

\* make_bidirectional_edges
make_bidirectional_edges(edges) ==
  edges \o [i \in DOMAIN edges |-> [edges[i] EXCEPT !.u = edges[i].v, !.v = edges[i].u]]

GAppend(G, k, item) ==
  IF k \in DOMAIN G THEN [G EXCEPT ![k] = Append(@, item)] ELSE (k :> <<item>>) @@ G

\* build_expanded_graph: G[u] gets ((v, mode), length, 'road'/'water'),
\* G[(v, mode)] gets (v, 0, 'virtual_arc') once; other modes are skipped
RECURSIVE build_expanded_loop(_, _, _)
build_expanded_loop(edges, i, G) ==
  IF i > Len(edges) THEN G
  ELSE LET e == edges[i]
           vm == <<e.v, e.mode>>
           real == [to |-> vm, w |-> e.length_m,
                    et |-> IF e.mode = 1 THEN "road" ELSE "water"]
           virt == [to |-> <<e.v, 0>>, w |-> 0, et |-> "virtual_arc"]
           G1 == GAppend(G, <<e.u, 0>>, real)
           G2 == IF vm \in DOMAIN G1 /\ virt \in Range(G1[vm]) THEN G1
                 ELSE GAppend(G1, vm, virt)
       IN IF e.mode \in {1, 2} THEN build_expanded_loop(edges, i + 1, G2)
          ELSE build_expanded_loop(edges, i + 1, G)

build_expanded_graph(edges_bidir) ==
  build_expanded_loop(edges_bidir, 1, [k \in {} |-> <<>>])

\* G.get(node, [])
Adj(G, node) == IF node \in DOMAIN G THEN G[node] ELSE <<>>

\* build_arcs: real arcs (u, 'v^m') and virtual arcs ('v^m', v) of G_exp
build_real_arcs(G) ==
  UNION {{<<token_to_node(u), token_to_node(G[u][j].to)>> :
            j \in {k \in DOMAIN G[u] : G[u][k].et \in {"road", "water"}}} :
         u \in {x \in DOMAIN G : x[2] = 0}}

build_virtual_arcs(G) ==
  UNION {{<<token_to_node(u), token_to_node(G[u][j].to)>> :
            j \in {k \in DOMAIN G[u] :
                     G[u][k].et = "virtual_arc" /\ G[u][k].to[2] = 0}} :
         u \in {x \in DOMAIN G : x[2] # 0}}

\* build_graph_structure: the arc sets handed to the model builder
build_graph_structure(edges_raw, hubs) ==
  LET G == build_expanded_graph(make_bidirectional_edges(edges_raw))
      thru == add_reverse_arcs(create_through_hub_arc(edges_raw, hubs))
      atil == add_reverse_arcs(classify_potential(edges_raw, hubs))
      real == build_real_arcs(G)
      virt == build_virtual_arcs(G)
      all == add_reverse_arcs(real) \cup virt \cup thru
  IN [G_exp |-> G, A |-> all, A_tilde |-> atil, A0 |-> all \ atil,
      real_arcs |-> real, virtual_arcs |-> virt, through_hub_arc |-> thru]

-----------------------------------------------------------------------------
(* Distance oracle (calculate_paths.py, CELL 4) *)

\* build_reverse_graph: G_rev[x] holds (u, w) for every arc u -> x of G_exp
build_reverse_graph(G) ==
  [x \in UNION {{G[u][j].to : j \in DOMAIN G[u]} : u \in DOMAIN G} |->
     UNION {{[to |-> u, w |-> G[u][j].w] : j \in {k \in DOMAIN G[u] : G[u][k].to = x}} :
            u \in DOMAIN G}]

\* variant of the relaxation test that keeps the first label a node receives
relax_first_label_wins(nd, cur) == cur = INF

\* variant of the relaxation test that also re-labels on a tie
relax_improves_or_ties(nd, cur) == nd <= cur

\* "if nd < dist[neigh]"
relax_improves(nd, cur) == nd < cur

\* the relaxation loop "for neigh, w, _etype in G_adj.get(node, [])"
RECURSIVE dijkstra_relax(_, _, _, _)
dijkstra_relax(outs, d, dist, pq) ==
  IF outs = {} THEN [dist |-> dist, pq |-> pq]
  ELSE LET e == CHOOSE x \in outs : TRUE
           nd == d + e.w
       IN IF relax_improves(nd, dist[e.to])
          THEN dijkstra_relax(outs \ {e}, d, [dist EXCEPT ![e.to] = nd], pq \cup {<<nd, e.to>>})
          ELSE dijkstra_relax(outs \ {e}, d, dist, pq)

\* the entries heapq.heappop may return: those of least d (ties are broken by
\* str(type(node)) and id(node))
heap_tops(pq) == {e \in pq : \A f \in pq : e[1] <= f[1]}

\* one iteration of "while pq" that pops top; pq holds (d, node)
dijkstra_step(G_adj, st, top) ==
  LET rest == st.pq \ {top}
      outs == IF top[2] \in DOMAIN G_adj THEN G_adj[top[2]] ELSE {}
  IN IF top[1] > st.dist[top[2]] THEN [dist |-> st.dist, pq |-> rest]
     ELSE dijkstra_relax(outs, top[1], st.dist, rest)

\* dist and pq before the loop; dist is a defaultdict with default float('inf')
dijkstra_start(targets, nodes) ==
  [dist |-> [n \in nodes |-> IF n \in targets THEN 0 ELSE INF],
   pq |-> {<<0, t>> : t \in targets}]

\* the loop "while pq" of dijkstra_multi_target
RECURSIVE dijkstra_loop(_, _)
dijkstra_loop(G_adj, st) ==
  IF st.pq = {} THEN st.dist
  ELSE dijkstra_loop(G_adj, dijkstra_step(G_adj, st, CHOOSE e \in heap_tops(st.pq) : TRUE))

\* origin_states(o) / dest_targets(d): [x, (x, 1), (x, 2)]
origin_states(o) == {<<o, 0>>, <<o, 1>>, <<o, 2>>}
dest_targets(d) == {<<d, 0>>, <<d, 1>>, <<d, 2>>}

dijkstra_multi_target(G_adj, targets, nodes) ==
  dijkstra_loop(G_adj, dijkstra_start(targets, nodes))

\* the nodes dist is read or written at
dist_nodes(G, o, d) ==
  DOMAIN G \cup UNION {{G[u][j].to : j \in DOMAIN G[u]} : u \in DOMAIN G}
    \cup origin_states(o) \cup dest_targets(d)

\* L_min = min(dist_to_d.get(s, inf) for s in origin_states(o))
min_over_origin_states(dist, o) ==
  CHOOSE m \in {dist[s] : s \in origin_states(o)} :
    \A s \in origin_states(o) : m <= dist[s]

\* calculate_L_min for one (comm, o, d)
L_min_of(G, o, d) ==
  min_over_origin_states(
    dijkstra_multi_target(build_reverse_graph(G), dest_targets(d), dist_nodes(G, o, d)), o)

\* the keys (comm, (o, d)) of the OD list
ODKeys(OD_pairs) ==
  UNION {{<<g, OD_pairs[g][i]>> : i \in DOMAIN OD_pairs[g]} : g \in DOMAIN OD_pairs}

calculate_L_min(G, OD_pairs) ==
  [k \in ODKeys(OD_pairs) |-> L_min_of(G, k[2][1], k[2][2])]

-----------------------------------------------------------------------------
(* Near-optimal path enumerator (calculate_paths.py, CELL 5) *)

\* variant of the cutoff test that tolerates one extra unit of cost
ExceedsCutoffPlusOne(cost, L_min, epsNum) ==
  cost * EPSILON_DEN > L_min * (EPSILON_DEN + epsNum) + EPSILON_DEN

\* cost > L_min * (1.0 + epsilon), epsilon = epsNum / EPSILON_DEN
ExceedsCutoff(cost, L_min, epsNum) ==
  cost * EPSILON_DEN > L_min * (EPSILON_DEN + epsNum)

\* "for neigh, w, edge_type in G.get(node, [])": push the admissible successors
RECURSIVE dfs_push(_, _, _, _, _, _, _)
dfs_push(adj, j, cost, path, L_min, epsNum, stack) ==
  IF j > Len(adj) THEN stack
  ELSE LET new_cost == cost + adj[j].w
       IN IF adj[j].to \in Range(path) \/ ExceedsCutoff(new_cost, L_min, epsNum)
          THEN dfs_push(adj, j + 1, cost, path, L_min, epsNum, stack)
          ELSE dfs_push(adj, j + 1, cost, path, L_min, epsNum,
                        Append(stack, [node |-> adj[j].to, cost |-> new_cost,
                                       path |-> Append(path, adj[j].to)]))

\* one iteration of "while stack and len(results) < max_paths"
dfs_step(G, target_nodes, L_min, epsNum, st) ==
  LET top == st.stack[Len(st.stack)]
      rest == SubSeq(st.stack, 1, Len(st.stack) - 1)
  IN IF ExceedsCutoff(top.cost, L_min, epsNum)
     THEN [stack |-> rest, results |-> st.results]
     ELSE IF top.node \in target_nodes
     THEN [stack |-> rest,
           results |-> Append(st.results, [path |-> top.path, cost |-> top.cost])]
     ELSE [stack |-> dfs_push(Adj(G, top.node), 1, top.cost, top.path, L_min, epsNum, rest),
           results |-> st.results]

\* the loop condition
dfs_running(st, max_paths) == st.stack # <<>> /\ Len(st.results) < max_paths

dfs_start(start_node) ==
  [stack |-> <<[node |-> start_node, cost |-> 0, path |-> <<start_node>>]>>,
   results |-> <<>>]

RECURSIVE dfs_loop(_, _, _, _, _, _)
dfs_loop(G, target_nodes, L_min, epsNum, max_paths, st) ==
  IF dfs_running(st, max_paths)
  THEN dfs_loop(G, target_nodes, L_min, epsNum, max_paths,
                dfs_step(G, target_nodes, L_min, epsNum, st))
  ELSE st

\* near_optimal_dfs: results[:max_paths]
near_optimal_dfs(G, start_node, target_nodes, L_min, epsNum, max_paths) ==
  LET r == dfs_loop(G, target_nodes, L_min, epsNum, max_paths, dfs_start(start_node)).results
  IN SubSeq(r, 1, Min2(Len(r), max_paths))

\* sorted(paths, key=lambda x: x[1]) (stable)
RECURSIVE sorted_by_cost(_)
sorted_by_cost(s) ==
  IF s = <<>> THEN <<>>
  ELSE LET init == sorted_by_cost(SubSeq(s, 1, Len(s) - 1))
           x == s[Len(s)]
           k == Cardinality({i \in DOMAIN init : init[i].cost <= x.cost})
       IN SubSeq(init, 1, k) \o <<x>> \o SubSeq(init, k + 1, Len(init))

\* the "seen" loop of calculate_near_optimal_paths: key = tuple(path), keep the
\* first (path, cost) of each key, stop at cap entries
RECURSIVE dedup_by_path(_, _, _, _)
dedup_by_path(s, i, out, cap) ==
  IF i > Len(s) \/ Len(out) >= cap THEN out
  ELSE IF s[i].path \in {out[j].path : j \in DOMAIN out}
  THEN dedup_by_path(s, i + 1, out, cap)
  ELSE dedup_by_path(s, i + 1, Append(out, s[i]), cap)

\* seq_to_arcs
seq_to_arcs(seq) ==
  [i \in 1 .. Len(seq) - 1 |-> <<token_to_node(seq[i]), token_to_node(seq[i + 1])>>]

\* near_optimal_paths[comm][(o, d)] for a reachable pair
unique_near_optimal(G, o, d, L_min, epsNum, max_paths) ==
  IF <<o, 0>> \notin DOMAIN G THEN <<>>
  ELSE dedup_by_path(
         sorted_by_cost(near_optimal_dfs(G, <<o, 0>>, {<<d, 0>>}, L_min, epsNum, max_paths)),
         1, <<>>, max_paths)

-----------------------------------------------------------------------------
(* Through-hub expansion (calculate_paths.py, generate_all_unique_paths_with_through_hubs) *)

\* variant: a block is recognised whatever the mode of the arc that leaves the hub
is_through_block_any_mode(base_path, i, H) ==
  LET v1 == base_path[i][2]
      a2 == base_path[i + 1]
      a3 == base_path[i + 2]
  IN /\ IsVirtualLabel(v1)
     /\ v1.id \in H
     /\ a2 = <<v1, Phys(v1.id)>>
     /\ a3[1] = Phys(v1.id)
     /\ IsVirtualLabel(a3[2])

\* the pattern (prev -> h^m), (h^m -> h), (h -> next^m) at position i
is_through_block(base_path, i, H) ==
  LET v1 == base_path[i][2]
      a2 == base_path[i + 1]
      a3 == base_path[i + 2]
  IN /\ IsVirtualLabel(v1)
     /\ v1.id \in H
     /\ a2 = <<v1, Phys(v1.id)>>
     /\ a3[1] = Phys(v1.id)
     /\ IsVirtualLabel(a3[2])
     /\ a3[2].mode = v1.mode

\* blocks, as the ascending list of their start positions
RECURSIVE find_blocks(_, _, _, _)
find_blocks(base_path, i, H, out) ==
  IF i > Len(base_path) - 2 THEN out
  ELSE IF is_through_block(base_path, i, H)
  THEN find_blocks(base_path, i + 1, H, Append(out, i))
  ELSE find_blocks(base_path, i + 1, H, out)

RECURSIVE Pow2(_)
Pow2(n) == IF n = 0 THEN 1 ELSE 2 * Pow2(n - 1)

\* the k-th mask of itertools.product([0, 1], repeat=nb): the starts it chooses
chosen_starts(blocks, k) ==
  {blocks[j] : j \in {x \in DOMAIN blocks : (k \div Pow2(Len(blocks) - x)) % 2 = 1}}

\* the overlap check on the covers {start, start + 1, start + 2}
mask_valid(chosen) ==
  \A a \in chosen : \A b \in chosen : a < b => b - a >= 3

RECURSIVE build_new_path(_, _, _, _)
build_new_path(base_path, i, chosen, out) ==
  IF i > Len(base_path) THEN out
  ELSE IF i \in chosen
  THEN build_new_path(base_path, i + 3, chosen,
                      out \o <<base_path[i], <<base_path[i][2], base_path[i + 2][2]>>>>)
  ELSE build_new_path(base_path, i + 1, chosen, Append(out, base_path[i]))

RECURSIVE expand_masks(_, _, _, _)
expand_masks(base_path, blocks, k, out) ==
  IF k >= Pow2(Len(blocks)) THEN out
  ELSE IF mask_valid(chosen_starts(blocks, k))
  THEN expand_masks(base_path, blocks, k + 1,
                    Append(out, build_new_path(base_path, 1, chosen_starts(blocks, k), <<>>)))
  ELSE expand_masks(base_path, blocks, k + 1, out)

RECURSIVE expand_all(_, _, _, _)
expand_all(paths_list, i, H, out) ==
  IF i > Len(paths_list) THEN out
  ELSE LET blocks == find_blocks(paths_list[i], 1, H, <<>>)
       IN IF blocks = <<>>
          THEN expand_all(paths_list, i + 1, H, Append(out, paths_list[i]))
          ELSE expand_all(paths_list, i + 1, H,
                          out \o expand_masks(paths_list[i], blocks, 0, <<>>))

\* the final "seen" loop: keep the first occurrence of each path
RECURSIVE dedup_keep_first(_, _, _)
dedup_keep_first(s, i, out) ==
  IF i > Len(s) THEN out
  ELSE IF s[i] \in Range(out) THEN dedup_keep_first(s, i + 1, out)
  ELSE dedup_keep_first(s, i + 1, Append(out, s[i]))

generate_all_unique_paths_with_through_hubs(paths_list, H) ==
  dedup_keep_first(expand_all(paths_list, 1, H, <<>>), 1, <<>>)

\* calculate_near_optimal_paths: paths[(g, od)] for every pair of OD_pairs;
\* a pair with L_min = inf has no base paths (paths.get(key, []))
calculate_near_optimal_paths(G, OD_pairs, Lmin, H, epsNum, max_paths) ==
  [k \in ODKeys(OD_pairs) |->
     LET uniq == IF Lmin[k] = INF THEN <<>>
                 ELSE unique_near_optimal(G, k[2][1], k[2][2], Lmin[k], epsNum, max_paths)
         base_paths == [i \in DOMAIN uniq |-> seq_to_arcs(uniq[i].path)]
     IN generate_all_unique_paths_with_through_hubs(base_paths, H)]

\* CELL 5 as inlined in model_gurobi.py (run when data/paths_data.pkl is
\* absent), with EPSILON = 0.25 and MAX_PATHS_PER_OD = 5000.  An unreachable
\* pair is skipped by "continue" and gets no key in paths; the print of
\* paths[('g1', (0, 14))] and the lookup paths[key] of the expansion loop
\* raise on a missing key.
cell5_script(G, OD_pairs, Lmin, H) ==
  LET keys == {k \in ODKeys(OD_pairs) : Lmin[k] # INF}
      base == [k \in keys |->
                 LET uniq == unique_near_optimal(G, k[2][1], k[2][2], Lmin[k],
                                                 EPSILON_NUM, MAX_PATHS_PER_OD)
                 IN [i \in DOMAIN uniq |-> seq_to_arcs(uniq[i].path)]]
      dbg == <<"g1", <<0, 14>>>>
  IN IF dbg \notin keys THEN [raised |-> "KeyError", line |-> 1064]
     ELSE IF base[dbg] = <<>> THEN [raised |-> "IndexError", line |-> 1065]
     ELSE IF keys # ODKeys(OD_pairs) THEN [raised |-> "KeyError", line |-> 1177]
     ELSE [raised |-> "none",
           paths |-> [k \in keys |->
                        generate_all_unique_paths_with_through_hubs(base[k], H)]]

-----------------------------------------------------------------------------
(* Costs, capacities and demand (model_gurobi.py, lines 1243-1710).  A     *)
(* Python dict is a function on its key set; dict.get is a guarded lookup. *)

\* load_nodes: pcu_levels = [0.0] when the cell is empty; level 0 of a
\* CANDIDATE_NEW hub is forced to 0
load_pcu_levels(role, pcu_cell) ==
  LET pcu_levels == IF pcu_cell = <<>> THEN <<0>> ELSE pcu_cell
  IN IF role = "new" THEN [pcu_levels EXCEPT ![1] = 0] ELSE pcu_levels

\* L_h[h] = {l: cap for l, cap in enumerate(levels)}, {0: 0.0} when levels is empty
build_L_h(H, node_capacity_pcu_levels) ==
  [h \in H |->
     LET levels == IF h \in DOMAIN node_capacity_pcu_levels
                   THEN node_capacity_pcu_levels[h] ELSE <<>>
     IN IF levels = <<>> THEN [l \in {0} |-> 0]
        ELSE [l \in 0 .. Len(levels) - 1 |-> levels[l + 1]]]

\* L_a[a] = {0: base_capacity, 1: upgraded_capacity}
build_L_a(A_tilde) ==
  [a \in A_tilde |->
     [l \in {0, 1} |->
        IF l = 0 THEN ARC_BASE_CAPACITY
        ELSE IF HasRoadSuffix(a[1]) \/ HasRoadSuffix(a[2]) THEN ARC_UPGRADED_ROAD
        ELSE ARC_UPGRADED_WATER]]

\* real_arc_upgrade_costs_dict[(u, 'v^m')] = int(cost) over the edges with
\* project == "P"; a later row overwrites an earlier one
real_arc_upgrade_costs_dict(edges_raw) ==
  LET P == {i \in DOMAIN edges_raw : edges_raw[i].project = "P"}
      key(i) == <<Phys(edges_raw[i].u), make_virtual(edges_raw[i].v, edges_raw[i].mode)>>
  IN [k \in {key(i) : i \in P} |->
        edges_raw[CHOOSE i \in P : key(i) = k /\ \A j \in P : key(j) = k => j <= i].inv]

\* build_through_hub_mapping_all: (f"{u}^{m}", v) -> (u, v) with m = v[-1]
build_through_hub_mapping_all(H, A_tilde) ==
  LET src == {a \in A_tilde : IsInt(a[1]) /\ a[1].id \in H /\ IsVirtualLabel(a[2])}
  IN [k \in {<<make_virtual(a[1].id, a[2].mode % 10), a[2]>> : a \in src} |->
        <<Phys(k[1].id), k[2]>>]

\* virtual_arcs_all: virtual_arcs plus ('h^1', h) and ('h^2', h) for every hub
virtual_arcs_all(H, virtual_arcs) ==
  virtual_arcs \cup UNION {{<<make_virtual(h, 1), Phys(h)>>, <<make_virtual(h, 2), Phys(h)>>} : h \in H}

\* f_la: real keys, then through-hub keys (f_la.get(real_arc, 100)), then 0
\* on every virtual arc
build_f_la(edges_raw, H, A_tilde, virtual_arcs) ==
  LET real == real_arc_upgrade_costs_dict(edges_raw)
      thru == build_through_hub_mapping_all(H, A_tilde)
      virt == virtual_arcs_all(H, virtual_arcs)
  IN [a \in DOMAIN real \cup DOMAIN thru \cup virt |->
        IF a \in virt THEN 0
        ELSE IF a \in DOMAIN thru
        THEN (IF thru[a] \in DOMAIN real THEN real[thru[a]] ELSE F_LA_THROUGH_DEFAULT)
        ELSE real[a]]

\* f_la.get(a, 0)
f_la_get(f_la, a) == IF a \in DOMAIN f_la THEN f_la[a] ELSE 0

\* base * HUB_HUB_DISCOUNT when both physical endpoints are hubs
discounted(i, j, H) ==
  IF i \in H /\ j \in H THEN (BASE_CONST * HUB_HUB_DISCOUNT_PCT) \div 100 ELSE BASE_CONST

\* c_a: steps 4 (real arcs), 5 ("reverse" arcs (j^m, j)), 6 (through-hub arcs)
\* and 7 (setdefault 0 on the virtual arcs) of the transport-cost block
build_c_a(H, real_arcs, through_hub_arc, virtual_arcs) ==
  LET rev == {<<a[2], Phys(physical_node(a[2]))>> : a \in real_arcs}
      virt == virtual_arcs_all(H, virtual_arcs)
  IN [a \in real_arcs \cup rev \cup through_hub_arc \cup virt |->
        IF a \in through_hub_arc THEN BASE_CONST
        ELSE IF a \in rev THEN discounted(physical_node(a[1]), physical_node(a[2]), H)
        ELSE IF a \in real_arcs THEN discounted(physical_node(a[1]), physical_node(a[2]), H)
        ELSE 0]

\* c_a.get(arc, 0)
c_a_get(c_a, a) == IF a \in DOMAIN c_a THEN c_a[a] ELSE 0

\* w_gk[(g, od, t)] = BASE_DEMAND / num_od_pairs * growth_factor[t]
build_w_gk(OD_pairs) ==
  [k \in {<<kk[1], kk[2], t>> : kk \in ODKeys(OD_pairs), t \in T} |->
     (BASE_DEMAND * growth_factor10(k[3])) \div (10 * Len(OD_pairs[k[1]]))]

-----------------------------------------------------------------------------
(* Model builder: decision variables (model_gurobi.py, lines 1845-1925).   *)
(* m is the built model (index sets and data), P the path dictionary and   *)
(* s an assignment of the variables.  A share v_path is the numerator of   *)
(* k / ShareDen; u_hub, x_arc and the objective carry the same factor.     *)

ShareDen == 2

\* levels for which y_h[(h, l, t)] exists: 0..3 for a new hub, 0..2 otherwise
hub_levels(m, h) == IF h \in m.new_hubs THEN 0 .. 3 ELSE 0 .. 2

y_h_keys(new_hubs, H_tilde, H0) ==
  {<<h, l, t>> : h \in new_hubs, l \in 0 .. 3, t \in T} \cup
  {<<h, l, t>> : h \in H_tilde \cup H0, l \in 0 .. 2, t \in T}

y_a_keys(A_tilde) == {<<a, l, t>> : a \in A_tilde, l \in {0, 1}, t \in T}

\* v_path[(g, od, idx, t)] for idx, _ in enumerate(paths[(g, od)])
v_path_keys(OD_pairs, P) ==
  UNION {{<<k[1], k[2], idx, t>> : idx \in DOMAIN P[k], t \in T} : k \in ODKeys(OD_pairs)}

u_hub_keys(H) == {<<h, t>> : h \in H, t \in T}

x_arc_keys(A) == {<<a, t>> : a \in A, t \in T}

\* hub_upgrade_vars[(h, prev_l, l, t)], t > 1
hub_upgrade_keys(new_hubs, H_tilde) ==
  {k \in new_hubs \X (0 .. 2) \X (1 .. 3) \X (T \ {1}) : k[3] > k[2]} \cup
  {k \in H_tilde \X (0 .. 1) \X (1 .. 2) \X (T \ {1}) : k[3] > k[2]}

\* arc_upgrade_vars[(a, t)], t > 1
arc_upgrade_keys(A_tilde) == {<<a, t>> : a \in A_tilde, t \in T \ {1}}

\* the (g, od, t) for which a path_flow_balance constraint is added
path_flow_balance_keys(OD_pairs) ==
  {<<k[1], k[2], t>> : k \in ODKeys(OD_pairs), t \in T}

-----------------------------------------------------------------------------
(* Objective (model_gurobi.py, lines 1940-1994 and 2126-2131) *)

\* calculate_transport_cost: for i in range(len(path) - 1)
calculate_transport_cost(c_a, path) ==
  LET I == 1 .. Len(path) - 1
  IN SumSet(I, [i \in I |-> c_a_get(c_a, path[i])])

RECURSIVE FirstDigit(_)
FirstDigit(n) == IF n < 10 THEN n ELSE FirstDigit(n \div 10)

\* the test of the mode-switch loop at position i (current_arc = path[i],
\* next_arc = path[i + 1])
is_mode_switch(path, i, H) ==
  LET current_arc == path[i]
      next_arc == path[i + 1]
      hub == FirstDigit(next_arc[2].id)
  IN /\ IsVirtualLabel(current_arc[1])
     /\ IsVirtualLabel(next_arc[2])
     /\ hub \in {3, 4, 6}
     /\ hub \in H
     /\ HasRoadSuffix(current_arc[1]) # HasRoadSuffix(next_arc[2])

\* number of mode_switch_terms appended for one (path, t)
mode_switch_count(path, H) ==
  Cardinality({i \in 1 .. Len(path) - 2 : is_mode_switch(path, i, H)})

service_cost(m, s) ==
  SumSet(m.u_hub_keys, [k \in m.u_hub_keys |-> C_H_DEFAULT * s.u_hub[k]])

transport_cost(m, P, s) ==
  SumSet(m.v_path_keys,
         [k \in m.v_path_keys |->
            calculate_transport_cost(m.c_a, P[<<k[1], k[2]>>][k[3]])
              * m.w_gk[<<k[1], k[2], k[4]>>] * s.v_path[k]])

mode_switch_cost(m, P, s) ==
  SumSet(m.v_path_keys,
         [k \in m.v_path_keys |->
            mode_switch_count(P[<<k[1], k[2]>>][k[3]], m.H)
              * c_s * m.w_gk[<<k[1], k[2], k[4]>>] * s.v_path[k]])

\* hub_upgrade_cost: accumulated over the new_hubs loop and the H_tilde loop
hub_upgrade_cost_of(m, s, hubs, top) ==
  LET K1 == {<<h, l>> : h \in hubs, l \in 1 .. top}
      K2 == {k \in m.hub_upgrade_keys : k[1] \in hubs /\ k[3] <= top /\ k[2] < top}
  IN SumSet(K1, [k \in K1 |->
                   s.y_h[<<k[1], k[2], 1>>] * (m.L_h[k[1]][k[2]] - m.L_h[k[1]][0]) * f_lh(k[2])])
     + SumSet(K2, [k \in K2 |->
                   s.hub_upgrade_vars[k] * (m.L_h[k[1]][k[3]] - m.L_h[k[1]][k[2]]) * f_lh(k[3])])

hub_upgrade_cost(m, s) ==
  hub_upgrade_cost_of(m, s, m.new_hubs, 3) + hub_upgrade_cost_of(m, s, m.H_tilde, 2)

arc_upgrade_cost(m, s) ==
  SumSet(m.A_tilde,
         [a \in m.A_tilde |->
            (m.L_a[a][1] - m.L_a[a][0]) * f_la_get(m.f_la, a)
              * (s.y_a[<<a, 1, 1>>]
                 + SumSet(T \ {1}, [t \in T \ {1} |-> s.arc_upgrade_vars[<<a, t>>]]))])

\* variant: investment added to the objective
total_cost_with_investment(m, P, s) ==
  service_cost(m, s) + transport_cost(m, P, s) + mode_switch_cost(m, P, s)
    + hub_upgrade_cost(m, s) + arc_upgrade_cost(m, s)

\* total_cost = service_cost + transport_cost + mode_switch_cost
total_cost(m, P, s) == service_cost(m, s) + transport_cost(m, P, s) + mode_switch_cost(m, P, s)

-----------------------------------------------------------------------------
(* Constraints (model_gurobi.py, lines 2007-2122 and 2141-2316) *)

\* the shares of one (g, od, t), indexed by path
path_shares(m, v_path, key) ==
  [idx \in {k[3] : k \in {x \in m.v_path_keys :
                            x[1] = key[1] /\ x[2] = key[2] /\ x[4] = key[3]}} |->
     v_path[<<key[1], key[2], idx, key[3]>>]]

\* quicksum(v_path[(g, od, idx, t)] for idx in range(len(paths[(g, od)]))) == 1
path_flow_balance(shares) == SumSet(DOMAIN shares, shares) = ShareDen

path_flow_balance_constraints(m, s) ==
  \A key \in m.path_flow_balance_keys : path_flow_balance(path_shares(m, s.v_path, key))

\* path_uses_hub: h appears in the path as h or as 'h^m'
path_uses_hub(path, h) ==
  \E i \in DOMAIN path : physical_node(path[i][1]) = h \/ physical_node(path[i][2]) = h

arc_in_path(path, arc) == \E i \in DOMAIN path : path[i] = arc

flow_through_h(m, P, v_path, h, t) ==
  LET K == {k \in m.v_path_keys : k[4] = t /\ path_uses_hub(P[<<k[1], k[2]>>][k[3]], h)}
  IN SumSet(K, [k \in K |-> m.w_gk[<<k[1], k[2], t>>] * v_path[k]])

flow_on_arc(m, P, v_path, a, t) ==
  LET K == {k \in m.v_path_keys : k[4] = t /\ arc_in_path(P[<<k[1], k[2]>>][k[3]], a)}
  IN SumSet(K, [k \in K |-> m.w_gk[<<k[1], k[2], t>>] * v_path[k]])

\* u_hub[(h, t)] == flow_through_h
u_hub_flow(m, P, s) ==
  \A k \in m.u_hub_keys : s.u_hub[k] = flow_through_h(m, P, s.v_path, k[1], k[2])

\* x_arc[(a, t)] == flow_on_arc
x_arc_def(m, P, s) ==
  \A k \in m.x_arc_keys : s.x_arc[k] = flow_on_arc(m, P, s.v_path, k[1], k[2])

\* quicksum(L_h[h][l] * y_h[(h, l, t)] for l in levels if (h, l, t) in y_h)
hub_capacity_expr(m, s, h, t, levels) ==
  LET Lv == {l \in levels : <<h, l, t>> \in m.y_h_keys}
  IN SumSet(Lv, [l \in Lv |-> m.L_h[h][l] * s.y_h[<<h, l, t>>]])

new_hub_capacity(m, s, h, t) ==
  CeilDiv(s.u_hub[<<h, t>>], ShareDen) <= hub_capacity_expr(m, s, h, t, 0 .. 3)

new_hub_no_flow_if_closed(m, s, h, t) ==
  CeilDiv(s.u_hub[<<h, t>>], ShareDen) <= M_big_hub * (1 - s.y_h[<<h, 0, t>>])

potential_hub_capacity(m, s, h, t) ==
  CeilDiv(s.u_hub[<<h, t>>], ShareDen) <= hub_capacity_expr(m, s, h, t, 0 .. 2)

\* variant: no capacity bound on an existing hub
existing_hub_uncapped(m, s, h, t) == s.u_hub[<<h, t>>] >= 0

existing_hub_capacity(m, s, h, t) ==
  CeilDiv(s.u_hub[<<h, t>>], ShareDen) <= m.L_h[h][0]

\* variant: block 9.1c left out
hub_capacity_dropped(m, s) == \A k \in m.u_hub_keys : s.u_hub[k] >= 0

hub_capacity_constraints(m, s) ==
  /\ \A h \in m.new_hubs : \A t \in T :
       new_hub_capacity(m, s, h, t) /\ new_hub_no_flow_if_closed(m, s, h, t)
  /\ \A h \in m.H_tilde : \A t \in T : potential_hub_capacity(m, s, h, t)
  /\ \A h \in m.H0 : \A t \in T : existing_hub_capacity(m, s, h, t)

\* x_arc <= L_a[a][0] * y_a[a, 0, t] + L_a[a][1] * y_a[a, 1, t]
arc_capacity(m, s, a, t) ==
  CeilDiv(s.x_arc[<<a, t>>], ShareDen)
    <= m.L_a[a][0] * s.y_a[<<a, 0, t>>] + m.L_a[a][1] * s.y_a[<<a, 1, t>>]

arc_capacity_constraints(m, s) ==
  \A a \in m.A_tilde : \A t \in T : arc_capacity(m, s, a, t)

\* the levels of one (h, t) / one (a, t), indexed by level
y_h_row(m, y_h, h, t) == [l \in hub_levels(m, h) |-> y_h[<<h, l, t>>]]

y_a_row(y_a, a, t) == [l \in {0, 1} |-> y_a[<<a, l, t>>]]

\* hub_level_new: sum over l in [0, 1, 2, 3] == 1
hub_level_new(row) ==
  SumSet(DOMAIN row \cap (0 .. 3), row) = 1

\* hub_level_pot: sum over l in [0, 1, 2] == 1
hub_level_pot(row) ==
  SumSet(DOMAIN row \cap (0 .. 2), row) = 1

\* variant: an existing hub is one-hot over its levels but not pinned
hub_one_hot_not_pinned(row) == SumSet(DOMAIN row, row) = 1

\* hub{h}_always_level0 and hub{h}_no_upgrade_{l}
hub_always_level0(row) ==
  row[0] = 1 /\ \A l \in DOMAIN row \cap {1, 2} : row[l] = 0

hub_level_ok(m, h, row) ==
  /\ h \in m.new_hubs => hub_level_new(row)
  /\ h \in m.H_tilde => hub_level_pot(row)
  /\ h \in m.H0 => hub_always_level0(row)

hub_level_constraints(m, s) ==
  \A h \in m.H : \A t \in T : hub_level_ok(m, h, y_h_row(m, s.y_h, h, t))

\* variant: at most one arc level
arc_level_at_most_one(row) == row[0] + row[1] <= 1

\* arc_level: sum over l in [0, 1] == 1
arc_level(row) == row[0] + row[1] = 1

arc_level_constraints(m, s) ==
  \A a \in m.A_tilde : \A t \in T : arc_level(y_a_row(s.y_a, a, t))

\* the three inequalities that tie an upgrade indicator to its two level variables
\* variant: the two upper bounds only, without the "_logic" constraint
upgrade_indicator_upper_bounds(ind, y_now, y_prev) ==
  ind <= y_now /\ ind <= y_prev

\* indicator <= y_now, indicator <= y_prev, indicator >= y_now + y_prev - 1
upgrade_indicator_ok(ind, y_now, y_prev) ==
  ind <= y_now /\ ind <= y_prev /\ ind >= y_now + y_prev - 1

upgrade_indicator_constraints(m, s) ==
  /\ \A k \in m.hub_upgrade_keys :
       upgrade_indicator_ok(s.hub_upgrade_vars[k], s.y_h[<<k[1], k[3], k[4]>>],
                            s.y_h[<<k[1], k[2], k[4] - 1>>])
  /\ \A k \in m.arc_upgrade_keys :
       upgrade_indicator_ok(s.arc_upgrade_vars[k], s.y_a[<<k[1], 1, k[2]>>],
                            s.y_a[<<k[1], 0, k[2] - 1>>])

\* the hub terms one loop ("for h in new_hubs" with top = 3, "for h in H_tilde"
\* with top = 2) appends to period_terms
hub_period_terms(m, s, hubs, top, t) ==
  LET K1 == {k \in hubs \X (1 .. top) : k[2] \in DOMAIN m.L_h[k[1]]}
      K2 == {k \in m.hub_upgrade_keys : k[1] \in hubs /\ k[4] = t}
  IN IF t = 1
     THEN SumSet(K1, [k \in K1 |->
                   s.y_h[<<k[1], k[2], t>>] * (m.L_h[k[1]][k[2]] - m.L_h[k[1]][0]) * f_lh(k[2])])
     ELSE SumSet(K2, [k \in K2 |->
                   s.hub_upgrade_vars[k] * (m.L_h[k[1]][k[3]] - m.L_h[k[1]][k[2]]) * f_lh(k[3])])

arc_period_terms(m, s, t) ==
  SumSet(m.A_tilde,
         [a \in m.A_tilde |->
            (m.L_a[a][1] - m.L_a[a][0]) * f_la_get(m.f_la, a)
              * (IF t = 1 THEN s.y_a[<<a, 1, t>>]
                 ELSE IF <<a, t>> \in m.arc_upgrade_keys THEN s.arc_upgrade_vars[<<a, t>>]
                 ELSE 0)])

\* period_investment = quicksum(period_terms)
period_investment(m, s, t) ==
  hub_period_terms(m, s, m.new_hubs, 3, t) + hub_period_terms(m, s, m.H_tilde, 2, t)
    + arc_period_terms(m, s, t)

\* investment_cost_per_period[t] == period_investment, lb = 0
investment_cost_def(m, s) ==
  \A t \in T : /\ s.investment_cost_per_period[t] = period_investment(m, s, t)
               /\ s.investment_cost_per_period[t] >= 0

\* variant: no budget cap
budget_unbounded(m, s) == \A t \in T : s.investment_cost_per_period[t] >= 0

\* investment_cost_per_period[t] <= B[t]
budget_constraint(m, s) ==
  \A t \in T : s.investment_cost_per_period[t] <= m.B[t]

\* every constraint of the built model
all_constraints(m, P, s) ==
  /\ path_flow_balance_constraints(m, s)
  /\ u_hub_flow(m, P, s)
  /\ hub_capacity_constraints(m, s)
  /\ x_arc_def(m, P, s)
  /\ arc_capacity_constraints(m, s)
  /\ hub_level_constraints(m, s)
  /\ arc_level_constraints(m, s)
  /\ upgrade_indicator_constraints(m, s)
  /\ investment_cost_def(m, s)
  /\ budget_constraint(m, s)

-----------------------------------------------------------------------------
(* model.optimize().  With TimeLimit and MIPGap set, the solver returns    *)
(* some assignment that satisfies every constraint, or reports that none   *)
(* exists.  The level rows and the shares are enumerated; u_hub, x_arc,    *)
(* the upgrade indicators and investment_cost_per_period are fixed by      *)
(* their defining constraints.                                             *)

hub_row_candidates(m, h) ==
  {row \in [hub_levels(m, h) -> {0, 1}] : hub_level_ok(m, h, row)}

arc_row_candidates == {row \in [{0, 1} -> {0, 1}] : arc_level(row)}

share_candidates(m, P, key) ==
  {sh \in [DOMAIN P[<<key[1], key[2]>>] -> 0 .. ShareDen] :
     key \in m.path_flow_balance_keys => path_flow_balance(sh)}

\* the only value the three indicator inequalities admit
upgrade_indicator_value(y_now, y_prev) ==
  CHOOSE ind \in {0, 1} : upgrade_indicator_ok(ind, y_now, y_prev)

complete_assignment(m, P, y_h, y_a, v_path) ==
  LET s1 == [status |-> "OPTIMAL", y_h |-> y_h, y_a |-> y_a, v_path |-> v_path,
             u_hub |-> [k \in m.u_hub_keys |-> flow_through_h(m, P, v_path, k[1], k[2])],
             x_arc |-> [k \in m.x_arc_keys |-> flow_on_arc(m, P, v_path, k[1], k[2])],
             hub_upgrade_vars |->
               [k \in m.hub_upgrade_keys |->
                  upgrade_indicator_value(y_h[<<k[1], k[3], k[4]>>],
                                          y_h[<<k[1], k[2], k[4] - 1>>])],
             arc_upgrade_vars |->
               [k \in m.arc_upgrade_keys |->
                  upgrade_indicator_value(y_a[<<k[1], 1, k[2]>>], y_a[<<k[1], 0, k[2] - 1>>])],
             investment_cost_per_period |-> [t \in T |-> 0]]
  IN [s1 EXCEPT !.investment_cost_per_period =
                    [t \in T |-> period_investment(m, s1, t)]]

feasible_assignments(m, P) ==
  LET HK == m.u_hub_keys
      AK == {<<a, t>> : a \in m.A_tilde, t \in T}
      VK == {<<k[1], k[2], k[4]>> : k \in m.v_path_keys} \cup m.path_flow_balance_keys
      hub_rows == DepFuncs(HK, [k \in HK |-> hub_row_candidates(m, k[1])])
      arc_rows == DepFuncs(AK, [k \in AK |-> arc_row_candidates])
      shares == DepFuncs(VK, [k \in VK |-> share_candidates(m, P, k)])
  IN {s \in {complete_assignment(m, P,
                 [k \in m.y_h_keys |-> hr[<<k[1], k[3]>>][k[2]]],
                 [k \in m.y_a_keys |-> ar[<<k[1], k[3]>>][k[2]]],
                 [k \in m.v_path_keys |-> sh[<<k[1], k[2], k[4]>>][k[3]]]) :
                hr \in hub_rows, ar \in arc_rows, sh \in shares} :
        all_constraints(m, P, s)}

\* the built model
build_model(in, g, P) ==
  LET H == in.existing_hubs \cup in.candidate_hubs_new \cup in.candidate_hubs_upgrade
      H_tilde == in.candidate_hubs_new \cup in.candidate_hubs_upgrade
      new_hubs == in.candidate_hubs_new
      H0 == in.existing_hubs
  IN [H |-> H, H0 |-> H0, H_tilde |-> H_tilde, new_hubs |-> new_hubs,
      A |-> g.A, A_tilde |-> g.A_tilde,
      L_h |-> build_L_h(H, in.node_capacity_pcu_levels),
      L_a |-> build_L_a(g.A_tilde),
      f_la |-> build_f_la(in.edges_raw, H, g.A_tilde, g.virtual_arcs),
      c_a |-> build_c_a(H, g.real_arcs, g.through_hub_arc, g.virtual_arcs),
      w_gk |-> build_w_gk(in.OD_pairs),
      B |-> in.B,
      y_h_keys |-> y_h_keys(new_hubs, H_tilde, H0),
      y_a_keys |-> y_a_keys(g.A_tilde),
      v_path_keys |-> v_path_keys(in.OD_pairs, P),
      u_hub_keys |-> u_hub_keys(H),
      x_arc_keys |-> x_arc_keys(g.A),
      hub_upgrade_keys |-> hub_upgrade_keys(new_hubs, H_tilde),
      arc_upgrade_keys |-> arc_upgrade_keys(g.A_tilde),
      path_flow_balance_keys |-> path_flow_balance_keys(in.OD_pairs)]

-----------------------------------------------------------------------------
(* Results (model_gurobi.py, lines 2338-3143).  An assignment without the  *)
(* variable fields is a solve that ended with no incumbent.                *)

has_incumbent(s) == "y_h" \in DOMAIN s

\* for l in [0, 1, 2, 3]: if key in y_h and y_h[key].X > 0.5: ... break
first_selected_level(m, s, h, t) ==
  LET sel == {l \in 0 .. 3 : <<h, l, t>> \in m.y_h_keys /\ s.y_h[<<h, l, t>>] = 1}
  IN IF sel = {} THEN -1 ELSE CHOOSE l \in sel : \A k \in sel : l <= k

\* the printed cost breakdown and summary: the first lookup that raises
decode_results(m, OD_pairs, s) ==
  LET missing(h, t) == first_selected_level(m, s, h, t) \notin DOMAIN m.L_h[h]
  IN CASE ~has_incumbent(s) -> [raised |-> "AttributeError", line |-> 2349]
       [] OTHER ->
          IF \E h \in m.new_hubs, t \in T : missing(h, t)
            THEN [raised |-> "KeyError", line |-> 2430]
          ELSE IF \E h \in m.H_tilde : missing(h, 1)
            THEN [raised |-> "KeyError", line |-> 2461]
          ELSE IF \E h \in m.H_tilde, t \in T : missing(h, t)
            THEN [raised |-> "KeyError", line |-> 2476]
          ELSE IF \E t \in T : <<7, 0, t>> \notin m.y_h_keys
            THEN [raised |-> "KeyError", line |-> 2559]
          ELSE IF m.H \ m.H_tilde # {} /\ 6 \notin DOMAIN m.L_h
            THEN [raised |-> "KeyError", line |-> 2605]
          ELSE IF m.H \ m.H_tilde # {} /\ 7 \notin DOMAIN m.L_h
            THEN [raised |-> "KeyError", line |-> 2632]
          ELSE IF ~({"g1", "g2"} \subseteq DOMAIN OD_pairs)
            THEN [raised |-> "KeyError", line |-> 2649]
          ELSE [raised |-> "none", line |-> 0]

\* path_has_mode_switch(path, hubs): True at the first position that passes the
\* test; the cost breakdown calls it with hubs = (3, 4, 6)
path_has_mode_switch(path, hubs) ==
  \E i \in 1 .. Len(path) - 2 :
    LET current_arc == path[i]
        next_arc == path[i + 1]
    IN /\ IsVirtualLabel(current_arc[1])
       /\ IsVirtualLabel(next_arc[2])
       /\ FirstDigit(next_arc[2].id) \in hubs
       /\ HasRoadSuffix(current_arc[1]) # HasRoadSuffix(next_arc[2])

\* mode_switch_cost_val of the cost breakdown
mode_switch_cost_val(m, P, s) ==
  LET K == {k \in m.v_path_keys : path_has_mode_switch(P[<<k[1], k[2]>>][k[3]], {3, 4, 6})}
  IN SumSet(K, [k \in K |-> c_s * m.w_gk[<<k[1], k[2], k[4]>>] * s.v_path[k]])

\* total_calculated = trans_cost + serv_cost + mode_switch_cost_val
total_calculated(m, P, s) ==
  transport_cost(m, P, s) + service_cost(m, s) + mode_switch_cost_val(m, P, s)

\* hubs whose selected level in the period is above 0
selected_hubs(m, s, period) == {h \in m.H : first_selected_level(m, s, h, period) > 0}

\* the dictionary written to optimization_results_period{period}.json
export_results_to_json(m, P, s, period) ==
  [period |-> period,
   total_cost |-> total_cost(m, P, s),
   num_hubs |-> Cardinality(selected_hubs(m, s, period)),
   selected_hubs |-> selected_hubs(m, s, period),
   solver_status |-> IF s.status = "OPTIMAL" THEN "optimal" ELSE "time_limit"]

-----------------------------------------------------------------------------
(* Inputs.  One hub on a three-node network 1 - 2 - 3 with a direct        *)
(* waterway 1 - 3; node 4 has no arc.                                      *)

WaterLenMax == 3
BudgetMid == 1500000
BudgetBig == 2000000000
DfsPathCap == 2

Nil == <<>>

Edge(u, v, mode, length_m, project, inv) ==
  [u |-> u, v |-> v, mode |-> mode, length_m |-> length_m, project |-> project, inv |-> inv]

\* the Capacity(PCU/year) cell of the hub row, by role
pcu_cell(role) ==
  CASE role = "new" -> <<5000, 10000, 15000, 20000>>
    [] role = "upgrade" -> <<8000, 12000, 16000>>
    [] OTHER -> <<12000>>

Budgets == {[t \in T |-> b] : b \in {0, BudgetMid, BudgetBig}}

ODChoices == {<<<<1, 3>>>>, <<<<1, 3>>, <<1, 4>>>>}

MkInput(role, hub, mode1, pot, l13, od, B) ==
  [edges_raw |-> <<Edge(1, 2, mode1, 1, IF pot = 1 THEN "P" ELSE "E", 1),
                   Edge(2, 3, 1, 1, IF pot = 2 THEN "P" ELSE "E", 1),
                   Edge(1, 3, 2, l13, "E", 0)>>,
   existing_hubs |-> IF role = "e" THEN {hub} ELSE {},
   candidate_hubs_new |-> IF role = "new" THEN {hub} ELSE {},
   candidate_hubs_upgrade |-> IF role = "upgrade" THEN {hub} ELSE {},
   node_capacity_pcu_levels |-> [h \in {hub} |-> load_pcu_levels(role, pcu_cell(role))],
   OD_pairs |-> [g \in {"g1"} |-> od],
   B |-> B,
   EPSILON |-> EPSILON_NUM,
   MAX_PATHS_PER_OD |-> MAX_PATHS_PER_OD]

Scenarios ==
  {MkInput(role, 2, 1, pot, l13, od, B) :
     role \in {"e", "new", "upgrade"}, pot \in {0, 1}, l13 \in 2 .. WaterLenMax,
     od \in ODChoices, B \in Budgets}
  \cup {MkInput(role, hub, mode1, 0, 2, <<<<1, 3>>>>, [t \in T |-> BudgetBig]) :
          role \in {"e", "new", "upgrade"}, hub \in {2, 3}, mode1 \in {1, 2}}
  \cup {MkInput("e", 2, 1, 2, 2, <<<<1, 3>>>>, [t \in T |-> 0])}

\* hub 7 on the network 1 - 7 - 3, with or without hub 6 and commodity g2
ExportInput(role, with6, with_g2) ==
  LET hubs == IF with6 THEN {6, 7} ELSE {7}
  IN [edges_raw |-> <<Edge(1, 7, 1, 1, "E", 1), Edge(7, 3, 1, 1, "E", 1),
                      Edge(1, 3, 2, WaterLenMax, "E", 0)>>,
      existing_hubs |-> IF role = "e" THEN hubs ELSE {},
      candidate_hubs_new |-> {},
      candidate_hubs_upgrade |-> IF role = "upgrade" THEN hubs ELSE {},
      node_capacity_pcu_levels |->
        [h \in hubs |-> load_pcu_levels(role, IF role = "upgrade"
                                                THEN <<30000, 40000, 50000>> ELSE <<30000>>)],
      OD_pairs |-> IF with_g2 THEN [g \in {"g1", "g2"} |-> <<<<1, 3>>>>]
                   ELSE [g \in {"g1"} |-> <<<<1, 3>>>>],
      B |-> [t \in T |-> BudgetBig],
      EPSILON |-> EPSILON_NUM,
      MAX_PATHS_PER_OD |-> MAX_PATHS_PER_OD]

ExportScenarios ==
  {ExportInput(role, with6, with_g2) :
     role \in {"e", "upgrade"}, with6 \in BOOLEAN, with_g2 \in BOOLEAN} \
    {ExportInput("upgrade", TRUE, with_g2) : with_g2 \in BOOLEAN}

-----------------------------------------------------------------------------
(* The pipeline *)

NoSolution == [status |-> "none"]

Init ==
  /\ inp \in Scenarios \cup ExportScenarios
  /\ pc = "loaded"
  /\ gr = Nil
  /\ Lmin_dict = Nil
  /\ paths = Nil
  /\ mdl = Nil
  /\ sol = NoSolution
  /\ dfs = Nil
  /\ result_json = Nil
  /\ dijkstra = Nil

\* CELL 3
BuildGraph ==
  /\ pc = "loaded"
  /\ gr' = build_graph_structure(inp.edges_raw,
             inp.existing_hubs \cup inp.candidate_hubs_new \cup inp.candidate_hubs_upgrade)
  /\ pc' = "graph"
  /\ UNCHANGED <<inp, Lmin_dict, paths, mdl, sol, dfs, result_json, dijkstra>>

\* CELL 4
CalculateLmin ==
  /\ pc = "graph"
  /\ Lmin_dict' = calculate_L_min(gr.G_exp, inp.OD_pairs)
  /\ pc' = "lmin"
  /\ UNCHANGED <<inp, gr, paths, mdl, sol, dfs, result_json, dijkstra>>

\* CELL 5
CalculatePaths ==
  /\ pc = "lmin"
  /\ paths' = calculate_near_optimal_paths(gr.G_exp, inp.OD_pairs, Lmin_dict,
                inp.existing_hubs \cup inp.candidate_hubs_new \cup inp.candidate_hubs_upgrade,
                inp.EPSILON, inp.MAX_PATHS_PER_OD)
  /\ pc' = "paths"
  /\ UNCHANGED <<inp, gr, Lmin_dict, mdl, sol, dfs, result_json, dijkstra>>

\* variables, objective and constraints
BuildModel ==
  /\ pc = "paths"
  /\ mdl' = build_model(inp, gr, paths)
  /\ pc' = "built"
  /\ UNCHANGED <<inp, gr, Lmin_dict, paths, sol, dfs, result_json, dijkstra>>

\* model.optimize(): TimeLimit = 3600, so the solve ends Optimal, at the time
\* limit with or without an incumbent, Infeasible, or infeasible-or-unbounded
Optimize ==
  /\ pc = "built"
  /\ LET F == feasible_assignments(mdl, paths)
     IN \/ sol' \in F
        \/ \E s \in F : sol' = [s EXCEPT !.status = "TIME_LIMIT"]
        \/ sol' = [status |-> "TIME_LIMIT"]
        \/ F = {} /\ sol' = [status |-> "INFEASIBLE"]
        \/ F = {} /\ sol' = [status |-> "INF_OR_UNBD"]
  /\ pc' = "solved"
  /\ UNCHANGED <<inp, gr, Lmin_dict, paths, mdl, dfs, result_json, dijkstra>>

\* if model.status in [GRB.OPTIMAL, GRB.TIME_LIMIT]: ... elif INFEASIBLE: ... else
StatusBranch ==
  /\ pc = "solved"
  /\ IF sol.status \in {"OPTIMAL", "TIME_LIMIT"}
       THEN IF decode_results(mdl, inp.OD_pairs, sol).raised = "none"
              THEN /\ result_json' = [t \in T |-> export_results_to_json(mdl, paths, sol, t)]
                   /\ pc' = "exported"
              ELSE /\ result_json' = result_json
                   /\ pc' = "raised"
       ELSE /\ result_json' = result_json
            /\ pc' = IF sol.status = "INFEASIBLE" THEN "iis" ELSE "ended"
  /\ UNCHANGED <<inp, gr, Lmin_dict, paths, mdl, sol, dfs, dijkstra>>

Next == BuildGraph \/ CalculateLmin \/ CalculatePaths \/ BuildModel \/ Optimize \/ StatusBranch

Spec == Init /\ [][Next]_vars

-----------------------------------------------------------------------------
(* near_optimal_dfs, one loop iteration per step *)

DfsEpsilons == {0, EPSILON_NUM, EPSILON_DEN}

DfsEdges(mode1, l13) ==
  <<Edge(1, 2, mode1, 1, "E", 0), Edge(2, 3, 1, 1, "E", 0),
    Edge(1, 3, 2, l13, "E", 0), Edge(3, 4, 1, 1, "E", 0)>>

DfsGraphs ==
  {build_expanded_graph(make_bidirectional_edges(DfsEdges(mode1, l13))) :
     mode1 \in {1, 2}, l13 \in 2 .. WaterLenMax}

\* the call of calculate_near_optimal_paths: start_node = o, target_nodes = {d},
\* L_min finite
DfsInputs ==
  {in \in {[G |-> G, start_node |-> <<o, 0>>, target_nodes |-> {<<d, 0>>},
            L_min |-> L_min_of(G, o, d), epsilon |-> e, max_paths |-> k] :
             G \in DfsGraphs, o \in 1 .. 4, d \in 1 .. 4, e \in DfsEpsilons,
             k \in {1, DfsPathCap, MAX_PATHS_PER_OD}} :
     in.L_min # INF /\ in.start_node \in DOMAIN in.G}

InitDFS ==
  /\ inp \in DfsInputs
  /\ pc = "dfs"
  /\ dfs = dfs_start(inp.start_node)
  /\ gr = Nil
  /\ Lmin_dict = Nil
  /\ paths = Nil
  /\ mdl = Nil
  /\ sol = NoSolution
  /\ result_json = Nil
  /\ dijkstra = Nil

\* one iteration of the while loop
DfsStep ==
  /\ pc = "dfs"
  /\ dfs_running(dfs, inp.max_paths)
  /\ dfs' = dfs_step(inp.G, inp.target_nodes, inp.L_min, inp.epsilon, dfs)
  /\ UNCHANGED <<inp, pc, gr, Lmin_dict, paths, mdl, sol, result_json, dijkstra>>

\* return results[:max_paths]
DfsReturn ==
  /\ pc = "dfs"
  /\ ~dfs_running(dfs, inp.max_paths)
  /\ dfs' = [dfs EXCEPT !.results = SubSeq(@, 1, Min2(Len(@), inp.max_paths))]
  /\ pc' = "dfs_done"
  /\ UNCHANGED <<inp, gr, Lmin_dict, paths, mdl, sol, result_json, dijkstra>>

NextDFS == DfsStep \/ DfsReturn

SpecDFS == InitDFS /\ [][NextDFS]_vars

-----------------------------------------------------------------------------
(* Graph builder, distance oracle and path enumerator on their own inputs: *)
(* the network 0 - 2 - 14 with a direct waterway 0 - 14, hub 2, optionally *)
(* a record 2 - 4 of mode 3; node 4 is never reachable.                    *)

PathEdges(mode1, l13, extra) ==
  <<Edge(0, 2, mode1, 1, "E", 0), Edge(2, 14, 1, 1, "E", 0), Edge(0, 14, 2, l13, "E", 0)>>
    \o (IF extra THEN <<Edge(2, 4, 3, 1, "P", 1)>> ELSE <<>>)

PathODs == {<<<<0, 14>>>>, <<<<0, 14>>, <<0, 4>>>>}

PathScenarios ==
  {[edges_raw |-> PathEdges(mode1, l13, extra),
    existing_hubs |-> {2}, candidate_hubs_new |-> {}, candidate_hubs_upgrade |-> {},
    OD_pairs |-> [g \in {"g1"} |-> od],
    EPSILON |-> e,
    MAX_PATHS_PER_OD |-> k] :
     mode1 \in {1, 2}, l13 \in 2 .. WaterLenMax, extra \in BOOLEAN, od \in PathODs,
     e \in DfsEpsilons, k \in {1, DfsPathCap, MAX_PATHS_PER_OD}}

InitPaths ==
  /\ inp \in PathScenarios
  /\ pc = "loaded"
  /\ gr = Nil
  /\ Lmin_dict = Nil
  /\ paths = Nil
  /\ mdl = Nil
  /\ sol = NoSolution
  /\ dfs = Nil
  /\ result_json = Nil
  /\ dijkstra = Nil

\* CELL 5 of the script
Cell5Script ==
  /\ pc = "lmin"
  /\ LET r == cell5_script(gr.G_exp, inp.OD_pairs, Lmin_dict,
                inp.existing_hubs \cup inp.candidate_hubs_new \cup inp.candidate_hubs_upgrade)
     IN IF r.raised = "none"
        THEN pc' = "cell5" /\ paths' = r.paths
        ELSE pc' = "raised" /\ paths' = r
  /\ UNCHANGED <<inp, gr, Lmin_dict, mdl, sol, dfs, result_json, dijkstra>>

NextPaths == BuildGraph \/ CalculateLmin \/ CalculatePaths \/ Cell5Script

SpecPaths == InitPaths /\ [][NextPaths]_vars

-----------------------------------------------------------------------------
(* The pipeline on demand files with n commodities, each with the OD pair  *)
(* (1, 3): every commodity adds BASE_DEMAND to the demand of the network.  *)

ManyCommodities == 667

\* commodities are numbered 1..n; with a water length of 1 the direct water
\* path is the only candidate path
CapInput(n, l13) ==
  [edges_raw |-> <<Edge(1, 2, 1, 1, "E", 1), Edge(2, 3, 1, 1, "E", 1),
                   Edge(1, 3, 2, l13, "E", 0)>>,
   existing_hubs |-> {2},
   candidate_hubs_new |-> {},
   candidate_hubs_upgrade |-> {},
   node_capacity_pcu_levels |-> [h \in {2} |-> load_pcu_levels("e", pcu_cell("e"))],
   OD_pairs |-> [g \in 1 .. n |-> <<<<1, 3>>>>],
   B |-> [t \in T |-> 0],
   EPSILON |-> EPSILON_NUM,
   MAX_PATHS_PER_OD |-> MAX_PATHS_PER_OD]

CapScenarios ==
  {CapInput(n, l13) : n \in {1, 2}, l13 \in 1 .. 2} \cup {CapInput(ManyCommodities, 1)}

InitCap ==
  /\ inp \in CapScenarios
  /\ pc = "loaded"
  /\ gr = Nil
  /\ Lmin_dict = Nil
  /\ paths = Nil
  /\ mdl = Nil
  /\ sol = NoSolution
  /\ dfs = Nil
  /\ result_json = Nil
  /\ dijkstra = Nil

SpecCap == InitCap /\ [][Next]_vars

-----------------------------------------------------------------------------
(* The pipeline on a network whose road 2 - 3 out of hub 2 is a project    *)
(* (potential) arc, with a budget that pays for any upgrade.               *)

InitLink ==
  /\ inp \in {MkInput("e", 2, 1, 2, 2, <<<<1, 3>>>>, [t \in T |-> BudgetBig])}
  /\ pc = "loaded"
  /\ gr = Nil
  /\ Lmin_dict = Nil
  /\ paths = Nil
  /\ mdl = Nil
  /\ sol = NoSolution
  /\ dfs = Nil
  /\ result_json = Nil
  /\ dijkstra = Nil

SpecLink == InitLink /\ [][Next]_vars

-----------------------------------------------------------------------------
(* The path computation on the chain 0 - 2 - 14 - 5 - 6, where a path can  *)
(* pass up to three hubs, in either direction.                              *)

ChainEdges(mode3) ==
  <<Edge(0, 2, 1, 1, "E", 0), Edge(2, 14, 1, 1, "E", 0), Edge(14, 5, mode3, 1, "E", 0),
    Edge(5, 6, mode3, 1, "E", 0)>>

\* commodities travelling along the records' direction, or against it
ChainODs == {<<<<0, 14>>, <<0, 6>>>>, <<<<6, 0>>>>}

ChainScenarios ==
  {[edges_raw |-> ChainEdges(mode3),
    existing_hubs |-> hubs, candidate_hubs_new |-> {}, candidate_hubs_upgrade |-> {},
    OD_pairs |-> [g \in {"g1"} |-> od],
    EPSILON |-> EPSILON_NUM,
    MAX_PATHS_PER_OD |-> k] :
     mode3 \in {1, 2}, hubs \in SUBSET {2, 14, 5}, od \in ChainODs,
     k \in {DfsPathCap, MAX_PATHS_PER_OD}}

InitChain ==
  /\ inp \in ChainScenarios
  /\ pc = "loaded"
  /\ gr = Nil
  /\ Lmin_dict = Nil
  /\ paths = Nil
  /\ mdl = Nil
  /\ sol = NoSolution
  /\ dfs = Nil
  /\ result_json = Nil
  /\ dijkstra = Nil

SpecChain == InitChain /\ [][NextPaths]_vars

-----------------------------------------------------------------------------
(* The distance oracle and the path enumerator, one loop iteration per     *)
(* step, on graphs with zero-length records (zero-weight cycles).          *)

ZeroLenMax == 1

TermEdges(mode1, l12, l23) ==
  <<Edge(1, 2, mode1, l12, "E", 0), Edge(2, 3, 1, l23, "E", 0),
    Edge(1, 3, 2, 2, "E", 0)>>

TermODs == {<<1, 3>>, <<3, 1>>, <<1, 2>>, <<1, 4>>}

TermInputs ==
  {[G |-> build_expanded_graph(make_bidirectional_edges(TermEdges(mode1, l12, l23))),
    od |-> od, epsilon |-> e, max_paths |-> k] :
     mode1 \in {1, 2}, l12 \in 0 .. ZeroLenMax, l23 \in 0 .. ZeroLenMax,
     od \in TermODs, e \in DfsEpsilons, k \in {1, MAX_PATHS_PER_OD}}

\* calculate_L_min: dijkstra_multi_target on the reverse graph, before its loop
InitTerm ==
  /\ inp \in TermInputs
  /\ pc = "dijkstra"
  /\ dijkstra = dijkstra_start(dest_targets(inp.od[2]),
                               dist_nodes(inp.G, inp.od[1], inp.od[2]))
  /\ dfs = [stack |-> <<>>, results |-> <<>>]
  /\ gr = Nil
  /\ Lmin_dict = Nil
  /\ paths = Nil
  /\ mdl = Nil
  /\ sol = NoSolution
  /\ result_json = Nil

\* one iteration of "while pq"
DijkstraStep ==
  /\ pc = "dijkstra"
  /\ dijkstra.pq # {}
  /\ \E top \in heap_tops(dijkstra.pq) :
       dijkstra' = dijkstra_step(build_reverse_graph(inp.G), dijkstra, top)
  /\ UNCHANGED <<inp, pc, gr, Lmin_dict, paths, mdl, sol, dfs, result_json>>

\* "return dist", L_min, and the entry of near_optimal_dfs; a pair with
\* L_min == inf is skipped
DijkstraReturn ==
  /\ pc = "dijkstra"
  /\ dijkstra.pq = {}
  /\ LET L_min == min_over_origin_states(dijkstra.dist, inp.od[1])
     IN /\ Lmin_dict' = (<<"g1", inp.od>> :> L_min)
        /\ IF L_min = INF
             THEN pc' = "unreachable" /\ dfs' = dfs
             ELSE pc' = "dfs" /\ dfs' = dfs_start(<<inp.od[1], 0>>)
  /\ UNCHANGED <<inp, gr, paths, mdl, sol, result_json, dijkstra>>

\* one iteration of "while stack and len(results) < max_paths"
TermDfsStep ==
  /\ pc = "dfs"
  /\ dfs_running(dfs, inp.max_paths)
  /\ dfs' = dfs_step(inp.G, {<<inp.od[2], 0>>}, Lmin_dict[<<"g1", inp.od>>],
                   inp.epsilon, dfs)
  /\ UNCHANGED <<inp, pc, gr, Lmin_dict, paths, mdl, sol, result_json, dijkstra>>

\* return results[:max_paths]
TermDfsReturn ==
  /\ pc = "dfs"
  /\ ~dfs_running(dfs, inp.max_paths)
  /\ dfs' = [dfs EXCEPT !.results = SubSeq(@, 1, Min2(Len(@), inp.max_paths))]
  /\ pc' = "dfs_done"
  /\ UNCHANGED <<inp, gr, Lmin_dict, paths, mdl, sol, result_json, dijkstra>>

NextTerm == DijkstraStep \/ DijkstraReturn \/ TermDfsStep \/ TermDfsReturn

\* the interpreter keeps executing the loop it is in
SpecTerm == InitTerm /\ [][NextTerm]_vars /\ WF_vars(NextTerm)

-----------------------------------------------------------------------------
(* Properties *)

Built == pc \in {"built", "solved"}

Solved == pc = "solved" /\ sol.status = "OPTIMAL"

\* the level selected for h in t / for a in t
selected_hub_level(h, t) == CHOOSE l \in hub_levels(mdl, h) : sol.y_h[<<h, l, t>>] = 1

selected_arc_level(a, t) == CHOOSE l \in {0, 1} : sol.y_a[<<a, l, t>>] = 1

\* C1: the flow-conservation constraint is generated for exactly the
\* (commodity, od, t) whose L_min is finite; a pair with infinite L_min gets
\* no constraint.
C1_FlowBalanceOnlyForFiniteLmin ==
  Built => mdl.path_flow_balance_keys =
             {<<k[1], k[2], t>> : k \in {x \in DOMAIN Lmin_dict : Lmin_dict[x] # INF}, t \in T}

\* C2: in every assignment that satisfies the built model, every existing hub
\* has level 0 selected and every higher level unselected, in every period.
C2_ExistingHubsStayAtLevel0 ==
  Solved => \A h \in mdl.H0 : \A t \in T :
              /\ sol.y_h[<<h, 0, t>>] = 1
              /\ \A l \in {1, 2} : sol.y_h[<<h, l, t>>] = 0

C2_Witness ==
  Solved /\ \E h \in mdl.H0 : \E t \in T : sol.u_hub[<<h, t>>] > 0

\* C3: in every assignment that satisfies the built model, exactly one level
\* is selected for each (hub, period) and exactly one level for each
\* (potential arc, period).
C3_ExactlyOneLevel ==
  Solved =>
    /\ \A h \in mdl.H : \A t \in T :
         Cardinality({l \in hub_levels(mdl, h) : sol.y_h[<<h, l, t>>] = 1}) = 1
    /\ \A a \in mdl.A_tilde : \A t \in T :
         Cardinality({l \in {0, 1} : sol.y_a[<<a, l, t>>] = 1}) = 1

C3_Witness ==
  /\ Solved
  /\ \E h \in mdl.H_tilde : \E t \in T : sol.y_h[<<h, 1, t>>] = 1
  /\ \E a \in mdl.A_tilde : \E t \in T : sol.y_a[<<a, 1, t>>] = 1 /\ sol.x_arc[<<a, t>>] = 0

\* C4: in every assignment that satisfies the built model, the flow through a
\* hub is at most the capacity of the level selected for it in that period,
\* and the flow on a potential arc is at most the capacity of its selected level.
C4_FlowWithinSelectedCapacity ==
  Solved =>
    /\ \A h \in mdl.H : \A t \in T :
         sol.u_hub[<<h, t>>] <= ShareDen * mdl.L_h[h][selected_hub_level(h, t)]
    /\ \A a \in mdl.A_tilde : \A t \in T :
         sol.x_arc[<<a, t>>] <= ShareDen * mdl.L_a[a][selected_arc_level(a, t)]

C4_Witness ==
  /\ Solved
  /\ \E h \in mdl.H0 : \E t \in T :
       sol.u_hub[<<h, t>>] > 0 /\ sol.u_hub[<<h, t>>] < ShareDen * mdl.w_gk[<<"g1", <<1, 3>>, t>>]
  /\ \E a \in mdl.A_tilde : \E t \in T : sol.x_arc[<<a, t>>] > 0

\* C5: in every assignment that satisfies the built model, a candidate-new hub
\* that is at level 0 in period t has no flow through it in that period.
C5_ClosedNewHubHasNoFlow ==
  Solved => \A h \in mdl.new_hubs : \A t \in T :
              sol.y_h[<<h, 0, t>>] = 1 => sol.u_hub[<<h, t>>] = 0

C5_Witness ==
  Solved /\ \E h \in mdl.new_hubs : \E t \in T :
              /\ sol.y_h[<<h, 0, t>>] = 1
              /\ \E k \in mdl.v_path_keys : k[4] = t /\ sol.v_path[k] > 0

\* a path that visits the physical service node of h
visits_service_node(path, h) ==
  \E i \in DOMAIN path : path[i][1] = Phys(h) \/ path[i][2] = Phys(h)

serviced_flow(h, t) ==
  LET K == {k \in mdl.v_path_keys :
              k[4] = t /\ visits_service_node(paths[<<k[1], k[2]>>][k[3]], h)}
  IN SumSet(K, [k \in K |-> mdl.w_gk[<<k[1], k[2], t>>] * sol.v_path[k]])

\* C6: a path that traverses hub h only via a through-hub arc, never visiting
\* the physical node of h, does not contribute to the flow through h.
C6_ThroughHubVariantNotCounted ==
  Solved => \A k \in mdl.u_hub_keys : sol.u_hub[k] = serviced_flow(k[1], k[2])

\* once-counted investment of period t: level selection in t = 1, upgrade
\* indicators for t > 1
investment_of_period(t) ==
  LET K1 == {k \in mdl.H_tilde \X (1 .. 3) : <<k[1], k[2], 1>> \in mdl.y_h_keys}
      K2 == {k \in mdl.hub_upgrade_keys : k[4] = t}
      hub_part ==
        IF t = 1
        THEN SumSet(K1, [k \in K1 |-> sol.y_h[<<k[1], k[2], 1>>]
                          * (mdl.L_h[k[1]][k[2]] - mdl.L_h[k[1]][0]) * f_lh(k[2])])
        ELSE SumSet(K2, [k \in K2 |-> sol.hub_upgrade_vars[k]
                          * (mdl.L_h[k[1]][k[3]] - mdl.L_h[k[1]][k[2]]) * f_lh(k[3])])
      arc_part ==
        SumSet(mdl.A_tilde,
               [a \in mdl.A_tilde |->
                  (mdl.L_a[a][1] - mdl.L_a[a][0]) * f_la_get(mdl.f_la, a)
                    * (IF t = 1 THEN sol.y_a[<<a, 1, 1>>] ELSE sol.arc_upgrade_vars[<<a, t>>])])
  IN hub_part + arc_part

\* C7: in every assignment that satisfies the built model, the total
\* investment of each period (hub and arc upgrade cost, from the level
\* selection in t = 1 and from the upgrade indicators for t > 1) is at most
\* the budget of that period.
C7_InvestmentWithinBudget ==
  Solved => \A t \in T :
              /\ investment_of_period(t) <= mdl.B[t]
              /\ sol.investment_cost_per_period[t] <= mdl.B[t]

C7_Witness ==
  Solved /\ \E t \in T : investment_of_period(t) > 0 /\ mdl.B[t] = BudgetMid

\* C8: with a zero budget in every period, every hub level and every
\* potential-arc level (mirrored reverse arcs and potential through-hub arcs
\* included) is at level 0 in period 1 and keeps its previous-period value after.
C8_ZeroBudgetFreezesLevels ==
  (Solved /\ \A t \in T : mdl.B[t] = 0) =>
    /\ \A k \in mdl.y_h_keys :
         sol.y_h[k] = IF k[3] = 1 THEN (IF k[2] = 0 THEN 1 ELSE 0)
                      ELSE sol.y_h[<<k[1], k[2], k[3] - 1>>]
    /\ \A k \in mdl.y_a_keys :
         sol.y_a[k] = IF k[3] = 1 THEN (IF k[2] = 0 THEN 1 ELSE 0)
                      ELSE sol.y_a[<<k[1], k[2], k[3] - 1>>]

\* the operating cost computed from the shares alone
operating_cost_of_shares(m, P, v_path) ==
  SumSet(m.v_path_keys,
         [k \in m.v_path_keys |->
            LET path == P[<<k[1], k[2]>>][k[3]]
            IN (C_H_DEFAULT * Cardinality({h \in m.H : path_uses_hub(path, h)})
                + calculate_transport_cost(m.c_a, path)
                + c_s * mode_switch_count(path, m.H))
               * m.w_gk[<<k[1], k[2], k[4]>>] * v_path[k]])

\* C9: the objective contains only hub service, transport and mode-switch
\* cost: it is a function of the path shares, so two assignments with the same
\* shares and different levels or upgrade indicators have the same objective.
C9_ObjectiveDependsOnSharesOnly ==
  Solved => total_cost(mdl, paths, sol) = operating_cost_of_shares(mdl, paths, sol.v_path)

C9_Witness ==
  /\ Solved
  /\ \E t \in T : sol.investment_cost_per_period[t] > 0
  /\ mode_switch_cost(mdl, paths, sol) > 0

\* the weights of the arcs u -> v of G
arc_weights(G, u, v) == {G[u][j].w : j \in {x \in DOMAIN Adj(G, u) : G[u][x].to = v}}

\* the sums of arc weights along the node sequence path[i..]
RECURSIVE path_costs(_, _, _)
path_costs(G, path, i) ==
  IF i >= Len(path) THEN {0}
  ELSE {w + c : w \in arc_weights(G, path[i], path[i + 1]), c \in path_costs(G, path, i + 1)}

\* C10: every (path, cost) of near_optimal_dfs for origin o and target {d} is
\* a simple path from o to d, its cost is the sum of the weights of its arcs,
\* and cost <= L_min * (1 + epsilon).
C10_DfsResultsAreNearOptimalSimplePaths ==
  pc \in {"dfs", "dfs_done"} =>
    \A r \in Range(dfs.results) :
      /\ Cardinality(Range(r.path)) = Len(r.path)
      /\ r.path[1] = inp.start_node
      /\ r.path[Len(r.path)] \in inp.target_nodes
      /\ r.cost \in path_costs(inp.G, r.path, 1)
      /\ r.cost * EPSILON_DEN <= inp.L_min * (EPSILON_DEN + inp.epsilon)

C10_Witness ==
  /\ pc = "dfs_done"
  /\ \E i \in DOMAIN dfs.results : \E j \in DOMAIN dfs.results :
       dfs.results[i].cost < dfs.results[j].cost /\ Len(dfs.results[j].path) > 3

-----------------------------------------------------------------------------
(* Properties of the graph builder, the distance oracle and the enumerator *)

all_hubs == inp.existing_hubs \cup inp.candidate_hubs_new \cup inp.candidate_hubs_upgrade

\* C11: for every OD pair, the final candidate path list (after
\* deduplication and the through-hub expansion pass) has at most
\* MAX_PATHS_PER_OD paths.
C11_FinalPathListWithinCap ==
  /\ pc = "paths" => \A k \in DOMAIN paths : Len(paths[k]) <= inp.MAX_PATHS_PER_OD
  /\ pc = "cell5" => \A k \in DOMAIN paths : Len(paths[k]) <= MAX_PATHS_PER_OD

\* C12: for a fixed graph, OD pair, L_min and cap, a tolerance at least as
\* large as the one used yields at least as many candidate paths.
C12_ToleranceMonotone ==
  pc = "paths" =>
    \A e2 \in {e \in DfsEpsilons : e >= inp.EPSILON} :
      \A k \in DOMAIN paths :
        Len(paths[k]) <=
          Len(calculate_near_optimal_paths(gr.G_exp, inp.OD_pairs, Lmin_dict, all_hubs,
                                           e2, inp.MAX_PATHS_PER_OD)[k])

\* the orders of a list of records
RECURSIVE Permutations_of(_)
Permutations_of(s) ==
  IF s = <<>> THEN {<<>>}
  ELSE UNION {{<<s[i]>> \o q :
                 q \in Permutations_of(SubSeq(s, 1, i - 1) \o SubSeq(s, i + 1, Len(s)))} :
              i \in DOMAIN s}

\* C13: for fixed (o, d, L_min, epsilon, K) the set of paths returned is the
\* same for every order of the input arc list, also when more than K paths
\* lie within the cutoff.
C13_PathSetIndependentOfArcOrder ==
  pc = "paths" =>
    \A perm \in Permutations_of(inp.edges_raw) :
      \A k \in DOMAIN paths :
        Range(paths[k]) =
          Range(calculate_near_optimal_paths(
                  build_expanded_graph(make_bidirectional_edges(perm)),
                  inp.OD_pairs, Lmin_dict, all_hubs, inp.EPSILON, inp.MAX_PATHS_PER_OD)[k])

\* the arcs u -> v of G with their weights
graph_arcs(G) ==
  UNION {{[from |-> u, to |-> G[u][j].to, w |-> G[u][j].w] : j \in DOMAIN G[u]} : u \in DOMAIN G}

\* least total weight of a walk of at most n arcs from each node to a target
\* (f @@ <<>> is f, evaluated once)
RECURSIVE walk_dist(_, _, _, _)
walk_dist(arcs, nodes, targets, n) ==
  IF n = 0 THEN [x \in nodes |-> IF x \in targets THEN 0 ELSE INF] @@ <<>>
  ELSE LET prev == walk_dist(arcs, nodes, targets, n - 1)
       IN [x \in nodes |->
             LET via == {a.w + prev[a.to] : a \in {b \in arcs : b.from = x /\ prev[b.to] # INF}}
                 cand == via \cup {prev[x]}
             IN CHOOSE m \in cand : \A c \in cand : m <= c] @@ <<>>

\* the nodes from which a directed path leads into targets
RECURSIVE can_reach(_, _)
can_reach(arcs, S) ==
  LET S1 == S \cup {a.from : a \in {b \in arcs : b.to \in S}}
  IN IF S1 = S THEN S ELSE can_reach(arcs, S1)

\* C14: calculate_L_min returns the least total arc weight over the directed
\* paths of the expanded graph from a state of o to a state of d, and
\* infinity exactly when there is no such path.
C14_LminIsShortestDistance ==
  pc \in {"lmin", "paths", "cell5", "raised"} =>
    \A k \in DOMAIN Lmin_dict :
      LET o == k[2][1]
          d == k[2][2]
          nodes == dist_nodes(gr.G_exp, o, d)
          best == walk_dist(graph_arcs(gr.G_exp), nodes, dest_targets(d), Cardinality(nodes))
      IN /\ Lmin_dict[k] = min_over_origin_states(best, o)
         /\ Lmin_dict[k] = INF <=>
              origin_states(o) \cap can_reach(graph_arcs(gr.G_exp), dest_targets(d)) = {}

C14_Witness ==
  /\ pc = "lmin"
  /\ \E k \in DOMAIN Lmin_dict : Lmin_dict[k] = INF
  /\ \E k \in DOMAIN Lmin_dict : Lmin_dict[k] = 2 /\ inp.edges_raw[3].length_m = 3

\* C15: when L_min is infinite for an OD pair, path computation for the whole
\* OD list completes without raising and the path set recorded for that pair
\* is empty.
C15_UnreachablePairYieldsEmptySet ==
  (pc \in {"paths", "cell5", "raised"} /\ \E k \in DOMAIN Lmin_dict : Lmin_dict[k] = INF) =>
    /\ pc # "raised"
    /\ \A k \in DOMAIN Lmin_dict :
         Lmin_dict[k] = INF => k \in DOMAIN paths /\ paths[k] = <<>>

\* the kinds of expanded arc
IsRealArc(a) == IsInt(a[1]) /\ IsVirtualLabel(a[2])
IsThroughHubArc(a) == IsVirtualLabel(a[1]) /\ IsVirtualLabel(a[2])
IsVirtualArc(a) == IsVirtualLabel(a[1]) /\ IsInt(a[2])

reverse_of(a) ==
  IF IsRealArc(a) THEN <<Phys(a[2].id), make_virtual(a[1].id, a[2].mode)>>
  ELSE <<a[2], a[1]>>

is_known_mode(e) == e.mode \in {1, 2}

\* C18: a raw record whose mode is neither road nor water produces no
\* expanded arc and no mode-state node, and the arcs derived from the other
\* records are the ones produced without it.
C18_UnknownModeRecordDropped ==
  pc # "loaded" =>
    gr = build_graph_structure(SelectSeq(inp.edges_raw, is_known_mode), all_hubs)
\* C16: once the status branch has run, a result is exported exactly when the
\* status is Optimal or TimeLimit, with solver_status "optimal" for Optimal and
\* "time_limit" for TimeLimit; for any other status nothing is exported.
C16_StatusDecidesExport ==
  pc \in {"exported", "raised", "iis", "ended"} =>
    IF sol.status \in {"OPTIMAL", "TIME_LIMIT"}
      THEN /\ result_json # Nil
           /\ \A t \in T : result_json[t].solver_status =
                             (IF sol.status = "OPTIMAL" THEN "optimal" ELSE "time_limit")
      ELSE result_json = Nil


\* the path arrives at physical node h over (h^m1, h) and leaves it over
\* (h, x^m2) with m1 # m2
switches_mode_at(path, h) ==
  \E i \in 1 .. Len(path) - 1 :
    /\ IsVirtualLabel(path[i][1]) /\ path[i][2] = Phys(h)
    /\ path[i + 1][1] = Phys(h) /\ IsVirtualLabel(path[i + 1][2])
    /\ path[i][1].mode # path[i + 1][2].mode

\* C20: the objective charges c_s * demand * share for a candidate path if and
\* only if the path changes mode at some hub h in H; a switch at a node that is
\* not a hub is not charged, whatever the ids are.
C20_ModeSwitchChargedIffSwitchAtHub ==
  mdl # Nil =>
    \A key \in DOMAIN paths : \A idx \in 1 .. Len(paths[key]) :
      (mode_switch_count(paths[key][idx], mdl.H) > 0)
        <=> (\E h \in mdl.H : switches_mode_at(paths[key][idx], h))

\* the input graph has a cycle of weight 0
has_zero_weight_record == \E u \in DOMAIN inp.G : \E j \in DOMAIN inp.G[u] :
  inp.G[u][j].w = 0 /\ inp.G[u][j].et # "virtual_arc"

\* C19: on a finite expanded graph with non-negative weights, zero-weight
\* cycles included, dijkstra_multi_target ends with an empty priority queue
\* and, when L_min is finite, near_optimal_dfs ends.
C19_OracleAndEnumeratorTerminate ==
  <>(pc \in {"dfs_done", "unreachable"} /\ dijkstra.pq = {})

C19_Witness ==
  /\ pc = "dfs_done" /\ dijkstra.pq = {}
  /\ has_zero_weight_record
  /\ Lmin_dict[<<"g1", inp.od>>] = 0
  /\ Len(dfs.results) >= 1

\* the sum of c_a over every arc of the path, a virtual arc counting 0
sum_of_arc_costs(c_a, path) ==
  SumSet(DOMAIN path,
         [i \in DOMAIN path |-> IF IsVirtualArc(path[i]) THEN 0 ELSE c_a_get(c_a, path[i])])

\* C21: the transport cost of every candidate path in the objective is the sum
\* of c_a over all its arcs, first to last, with 0 for a virtual arc.
C21_TransportCostIsSumOverArcs ==
  mdl # Nil =>
    \A key \in DOMAIN paths : \A idx \in 1 .. Len(paths[key]) :
      calculate_transport_cost(mdl.c_a, paths[key][idx])
        = sum_of_arc_costs(mdl.c_a, paths[key][idx])

\* the binary values the indicator constraints admit for given level variables
admitted_indicators(y_now, y_prev) ==
  {ind \in {0, 1} : upgrade_indicator_ok(ind, y_now, y_prev)}

\* C22: for every hub or potential arc, period t > 1 and tracked level pair
\* (l_prev, l), the upgrade indicator of a satisfying assignment is 1 exactly
\* when l is selected in t and l_prev was selected in t - 1, and 0 otherwise.
C22_UpgradeIndicatorExact ==
  Solved =>
    /\ \A k \in mdl.hub_upgrade_keys :
         LET both == sol.y_h[<<k[1], k[3], k[4]>>] = 1 /\ sol.y_h[<<k[1], k[2], k[4] - 1>>] = 1
         IN /\ admitted_indicators(sol.y_h[<<k[1], k[3], k[4]>>],
                                   sol.y_h[<<k[1], k[2], k[4] - 1>>])
                 = {IF both THEN 1 ELSE 0}
            /\ sol.hub_upgrade_vars[k] = IF both THEN 1 ELSE 0
    /\ \A k \in mdl.arc_upgrade_keys :
         LET both == sol.y_a[<<k[1], 1, k[2]>>] = 1 /\ sol.y_a[<<k[1], 0, k[2] - 1>>] = 1
         IN /\ admitted_indicators(sol.y_a[<<k[1], 1, k[2]>>], sol.y_a[<<k[1], 0, k[2] - 1>>])
                 = {IF both THEN 1 ELSE 0}
            /\ sol.arc_upgrade_vars[k] = IF both THEN 1 ELSE 0

C22_Witness ==
  /\ Solved
  /\ \E k \in mdl.hub_upgrade_keys : sol.hub_upgrade_vars[k] = 1
  /\ \E k \in mdl.hub_upgrade_keys :
       sol.hub_upgrade_vars[k] = 0 /\ sol.y_h[<<k[1], k[3], k[4]>>] = 1
  /\ \E k \in mdl.arc_upgrade_keys : sol.arc_upgrade_vars[k] = 1

\* C23: for a candidate-new hub, every level l in 0..3 and every period t, the
\* one-hot and pinning constraints of the built model admit a level row with
\* the hub at level l; in particular level 3 can be selected.
C23_NewHubLevelsSelectable ==
  mdl # Nil =>
    \A h \in mdl.new_hubs : \A l \in 0 .. 3 :
      \E row \in hub_row_candidates(mdl, h) : row[l] = 1

\* A0 = [arc for arc in A if arc not in A_tilde]
A0(m) == m.A \ m.A_tilde

RECURSIVE simple_walks(_, _, _)
simple_walks(G, P, n) ==
  IF n = 0 THEN P
  ELSE simple_walks(G,
         P \cup UNION {{Append(p, Adj(G, p[Len(p)])[j].to) :
                          j \in {x \in DOMAIN Adj(G, p[Len(p)]) :
                                   Adj(G, p[Len(p)])[x].to \notin Range(p)}} : p \in P},
         n - 1)

\* all simple paths from start to a target whose cost is within the cutoff
near_optimal_simple_paths(G, start, targets, L_min, epsNum) ==
  {p \in simple_walks(G, {<<start>>}, Cardinality(dist_nodes(G, start[1], start[1]))) :
     /\ p[Len(p)] \in targets
     /\ \E c \in path_costs(G, p, 1) : c * EPSILON_DEN <= L_min * (EPSILON_DEN + epsNum)}

\* the node sequences near_optimal_dfs returned
returned_paths == {dfs.results[i].path : i \in DOMAIN dfs.results}

\* C25: for an OD pair with finite L_min the paths the enumerator returns are
\* exactly the simple paths with cost <= L_min * (1 + epsilon) whenever there
\* are at most K of them, and for every K >= 1 one returned path costs L_min.
C25_EnumeratorCompleteAndHasOptimum ==
  pc = "dfs_done" =>
    LET all == near_optimal_simple_paths(inp.G, inp.start_node, inp.target_nodes,
                                         inp.L_min, inp.epsilon)
    IN /\ Cardinality(all) <= inp.max_paths => returned_paths = all
       /\ \E i \in DOMAIN dfs.results : dfs.results[i].cost = inp.L_min

\* positions i where the path has (prev, h^m), (h^m, h), (h, next^m), h a hub
collapsible_starts(b, H) ==
  {i \in 1 .. Len(b) - 2 :
     /\ IsVirtualLabel(b[i][2]) /\ b[i][2].id \in H
     /\ b[i + 1] = <<b[i][2], Phys(b[i][2].id)>>
     /\ b[i + 2][1] = Phys(b[i][2].id) /\ IsVirtualLabel(b[i + 2][2])
     /\ b[i + 2][2].mode = b[i][2].mode}

\* sets of blocks no two of which share an arc
nonoverlapping_subsets(b, H) ==
  {S \in SUBSET collapsible_starts(b, H) :
     \A x \in S : \A y \in S : x # y => {x, x + 1, x + 2} \cap {y, y + 1, y + 2} = {}}

\* b with the second and third arc of every block of S merged into (h^m, next^m)
variant_of(b, S) ==
  LET kept == {j \in DOMAIN b : j - 2 \notin S}
      pos(j) == Cardinality({x \in kept : x <= j})
  IN [n \in 1 .. Cardinality(kept) |->
        LET j == CHOOSE x \in kept : pos(x) = n
        IN IF j - 1 \in S THEN <<b[j - 1][2], b[j + 1][2]>> ELSE b[j]]

\* the base paths of an OD key, as arc lists
base_paths_of(key) ==
  LET uniq == unique_near_optimal(gr.G_exp, key[2][1], key[2][2], Lmin_dict[key],
                                  inp.EPSILON, inp.MAX_PATHS_PER_OD)
  IN {seq_to_arcs(uniq[i].path) : i \in DOMAIN uniq}

\* C26: the expansion outputs, for every base path, exactly one variant per
\* non-overlapping subset of its collapsible blocks (the base path for the
\* empty subset); every variant is a contiguous chain from the origin to the
\* destination, and no arc sequence occurs twice in the output.
C26_OneVariantPerNonOverlappingSubset ==
  pc = "paths" =>
    \A key \in {k \in DOMAIN paths : Lmin_dict[k] # INF} :
      LET base == base_paths_of(key)
          out == paths[key]
      IN /\ Range(out) = UNION {{variant_of(b, S) : S \in nonoverlapping_subsets(b, all_hubs)} :
                                  b \in base}
         /\ Len(out) = SumSet(base, [b \in base |->
                                       Cardinality(nonoverlapping_subsets(b, all_hubs))])
         /\ \A i \in DOMAIN out : \A j \in DOMAIN out : i # j => out[i] # out[j]
         /\ \A i \in DOMAIN out :
              /\ out[i][1][1] = Phys(key[2][1])
              /\ out[i][Len(out[i])][2] = Phys(key[2][2])
              /\ \A n \in 1 .. Len(out[i]) - 1 : out[i][n][2] = out[i][n + 1][1]

C26_Witness ==
  /\ pc = "paths"
  /\ \E key \in DOMAIN paths : \E b \in base_paths_of(key) :
       /\ \E S \in nonoverlapping_subsets(b, all_hubs) : Cardinality(S) = 2
       /\ \E S \in SUBSET collapsible_starts(b, all_hubs) :
            S \notin nonoverlapping_subsets(b, all_hubs)
       /\ Len(paths[key]) = 5

\* C27: for every solved assignment the cost components recomputed in the
\* cost breakdown (hub service, transport, mode switch) sum to the objective
\* value; a path is charged the mode-switch cost as often in the objective as
\* in the breakdown.
C27_BreakdownEqualsObjective ==
  (pc = "solved" /\ has_incumbent(sol)) =>
    /\ total_calculated(mdl, paths, sol) = total_cost(mdl, paths, sol)
    /\ \A key \in DOMAIN paths : \A idx \in 1 .. Len(paths[key]) :
         mode_switch_count(paths[key][idx], mdl.H)
           = IF path_has_mode_switch(paths[key][idx], {3, 4, 6}) THEN 1 ELSE 0

-----------------------------------------------------------------------------
\* the arcs of the candidate paths of every OD pair
candidate_path_arcs ==
  UNION {UNION {Range(paths[key][idx]) : idx \in 1 .. Len(paths[key])} : key \in DOMAIN paths}

\* C28: every arc of every candidate path, base path or through-hub variant,
\* is an arc of the expanded arc set A, and every through-hub arc
\* ('h^m', 'next^m') of a variant is one of the through-hub arcs that the
\* graph builder emitted.
C28_PathArcsAreGraphArcs ==
  pc = "paths" =>
    \A a \in candidate_path_arcs :
      /\ a \in gr.A
      /\ IsThroughHubArc(a) => a \in gr.through_hub_arc

-----------------------------------------------------------------------------
\* C29: the investment of period t that the budget bounds counts the upgrade
\* cost of each hub exactly once; a candidate-new hub, which is also in the
\* potential set, is not counted twice.
C29_InvestmentCountsEachHubOnce ==
  (pc = "solved" /\ has_incumbent(sol)) =>
    \A t \in T : sol.investment_cost_per_period[t] = investment_of_period(t)

-----------------------------------------------------------------------------
\* C30: a potential through-hub arc has, in every period, the same selected
\* level as the potential real arc it is mapped to (upgrade_dependencies =
\* through_hub_mapping: through-hub arc -> real arc).
C30_ThroughArcLevelFollowsRealArc ==
  (pc = "solved" /\ has_incumbent(sol)) =>
    LET upgrade_dependencies == build_through_hub_mapping_all(mdl.H, mdl.A_tilde)
    IN \A k \in DOMAIN upgrade_dependencies \cap mdl.A_tilde : \A t \in T :
         selected_arc_level(k, t) = selected_arc_level(upgrade_dependencies[k], t)

=============================================================================
